---------------------------- MODULE Spec2Model ----------------------------
(***************************************************************************)
(* A model of the HIVE task registry (internal/task: Manager and Task),    *)
(* of the files it rewrites, and of the orchestrator loops that use it.    *)
(*                                                                         *)
(* Two levels share the same pure definitions of the Manager operations:   *)
(*   - the file level (SpecOne, SpecMulti, SpecClaim): every Manager call  *)
(*     is split into its lock, load, temp-file write, rename and unlock    *)
(*     steps, and a process may be killed between any two of them;         *)
(*   - the orchestrator level (Spec): Run, the dispatcher tick, the pool   *)
(*     channels and the result handler, with the external CLI/TUI          *)
(*     commands that mutate the same registry. A Manager call is one step  *)
(*     here: the calls of one process are serialized by the Manager's      *)
(*     mutex, and what calls of different processes do to the file is the  *)
(*     subject of the file level.                                          *)
(* SpecRecover applies RecoverInProgress several times in a row to every   *)
(* registry of at most two tasks.                                          *)
(***************************************************************************)
EXTENDS Integers, Sequences, FiniteSets, TLC

\* ------------------------------------------------------------------ bounds

\* Largest value of the wall clock (0 is Go's zero time.Time).
MaxClock == 2
\* Manager calls issued in one behaviour of the file-level specifications.
MaxCalls == 2

\* External commands (CLI, TUI) issued while the orchestrator runs.
MaxExt == 1
\* Times the orchestrator process is stopped and started again.
MaxRestarts == 1

\* Results that carry a plan in one behaviour of the result-handler level.
MaxPlans == 1

\* RecoverInProgress calls made in a row on one registry.
MaxRecover == 2

\* Tokens the agent writes at most.
MaxOut == 2

\* ResetRestartCount calls at most.
MaxResets == 1

\* Calls a client makes to the pool, or to a Manager, one after the other.
MaxLog == 4

\* Successful AddTask and UpdateTask calls in a behaviour of the round trip.
MaxWrites == 3

\* config.MaxRestartAttempts.
MaxRestartAttempts == 2

\* The goroutines that call Driver.Restart.
Callers == {1, 2, 3}

\* num_workers of the default configuration.
NumWorkers == 1

\* Task ids of the model ("t1", "t2" in the registry file).
TaskIDs == {1, 2}
\* Task priorities that occur.
Priorities == {0, 1}
\* The worker id each direct caller passes to ClaimTask (the dispatcher passes 0).
WorkerOf(p) == CASE p = "p1" -> 1 [] p = "p2" -> 2 [] OTHER -> 3
\* Goroutines (or CLI processes) that call a Manager at the file level.
Procs == {"p1", "p2", "p3"}

\* ------------------------------------------------------------ task/types.go

StatusPending == "pending"
StatusInProgress == "in_progress"
StatusReviewing == "reviewing"
StatusCompleted == "completed"
StatusFailed == "failed"

Statuses ==
  {StatusPending, StatusInProgress, StatusReviewing, StatusCompleted, StatusFailed}

IsTerminal(s) == s = StatusCompleted \/ s = StatusFailed

\* IsActive that leaves out the reviewing status.
IsActiveInProgressOnly(s) == s = StatusInProgress

IsActive(s) == s = StatusInProgress \/ s = StatusReviewing

\* The persisted fields of a Task that the registry operations read or write,
\* with its title and role (description, context_files, logs and created_at
\* are carried through unchanged by every operation and are left out).
NewTask(id, prio, t) ==
  [id |-> id, title |-> "", role |-> "", priority |-> prio,
   status |-> StatusPending, workerID |-> 0,
   retryCount |-> 0, failReason |-> "", startedAt |-> 0, completedAt |-> 0,
   updatedAt |-> t]

\* The absence of a task (a nil *Task).
NoTask ==
  [id |-> 0, title |-> "", role |-> "", priority |-> 0, status |-> "", workerID |-> 0,
   retryCount |-> 0, failReason |-> "", startedAt |-> 0, completedAt |-> 0,
   updatedAt |-> 0]

\* t1, t2 are the values of the two successive time.Now() calls.
MarkInProgress(t, workerID, t1, t2) ==
  [t EXCEPT !.status = StatusInProgress, !.workerID = workerID,
            !.startedAt = t1, !.updatedAt = t2]

\* ResetForRetry that leaves the status as it is.
ResetForRetryKeepStatus(t, t1) ==
  [t EXCEPT !.workerID = 0, !.retryCount = 0,
            !.failReason = "", !.startedAt = 0, !.completedAt = 0,
            !.updatedAt = t1]

ResetForRetry(t, t1) ==
  [t EXCEPT !.status = StatusPending, !.workerID = 0, !.retryCount = 0,
            !.failReason = "", !.startedAt = 0, !.completedAt = 0,
            !.updatedAt = t1]

\* ---------------------------------------------------------- task/manager.go

\* What a Manager call leaves behind: the list it computed, the error it
\* returns ("ok" for nil), whether it calls saveAllLocked, and a count or task.
Result(tasks, err, save, n, t) ==
  [tasks |-> tasks, err |-> err, save |-> save, n |-> n, task |-> t]

\* Index of the first record with this id, 0 when there is none.
IndexOf(tasks, id) ==
  IF \E i \in 1..Len(tasks) : tasks[i].id = id
  THEN CHOOSE i \in 1..Len(tasks) :
         tasks[i].id = id /\ \A j \in 1..(i - 1) : tasks[j].id # id
  ELSE 0

SelectSeqNotID(tasks, id) ==
  LET keep(t) == t.id # id IN SelectSeq(tasks, keep)

\* GetNextPending that ignores the priorities: the first pending task.
GetNextPendingFirst(tasks) ==
  LET pend == {i \in 1..Len(tasks) : tasks[i].status = StatusPending}
      first == CHOOSE i \in pend : \A j \in pend : i <= j
  IN IF pend = {} THEN NoTask ELSE tasks[first]

\* GetNextPending that lets a later task of the same priority win.
GetNextPendingLastTie(tasks) ==
  LET pend == {i \in 1..Len(tasks) : tasks[i].status = StatusPending}
      best == CHOOSE i \in pend :
                \A j \in pend :
                  \/ tasks[j].priority < tasks[i].priority
                  \/ (tasks[j].priority = tasks[i].priority /\ j <= i)
  IN IF pend = {} THEN NoTask ELSE tasks[best]

GetNextPending(tasks) ==
  LET pend == {i \in 1..Len(tasks) : tasks[i].status = StatusPending}
      best == CHOOSE i \in pend :
                \A j \in pend :
                  \/ tasks[j].priority < tasks[i].priority
                  \/ (tasks[j].priority = tasks[i].priority /\ i <= j)
  IN IF pend = {} THEN NoTask ELSE tasks[best]

\* ClaimTask without its check of the status.
ClaimTaskUnchecked(tasks, taskID, workerID, t1, t2) ==
  LET i == IndexOf(tasks, taskID) IN
  IF i = 0 THEN Result(tasks, "not_found", FALSE, 0, NoTask)
  ELSE Result([tasks EXCEPT ![i] = MarkInProgress(@, workerID, t1, t2)],
              "ok", TRUE, 0, NoTask)

ClaimTask(tasks, taskID, workerID, t1, t2) ==
  LET i == IndexOf(tasks, taskID) IN
  IF i = 0 THEN Result(tasks, "not_found", FALSE, 0, NoTask)
  ELSE IF tasks[i].status # StatusPending
  THEN Result(tasks, "not_pending", FALSE, 0, NoTask)
  ELSE Result([tasks EXCEPT ![i] = MarkInProgress(@, workerID, t1, t2)],
              "ok", TRUE, 0, NoTask)

GetByID(tasks, id) ==
  LET i == IndexOf(tasks, id) IN
  IF i = 0 THEN Result(tasks, "not_found", FALSE, 0, NoTask)
  ELSE Result(tasks, "ok", FALSE, 0, tasks[i])

\* UpdateTask that appends the task when no task has its id.
UpdateTaskUpsert(tasks, updated, t1) ==
  LET i == IndexOf(tasks, updated.id) IN
  IF i = 0 THEN Result(Append(tasks, [updated EXCEPT !.updatedAt = t1]),
                       "ok", TRUE, 0, NoTask)
  ELSE Result([tasks EXCEPT ![i] = [updated EXCEPT !.updatedAt = t1]],
              "ok", TRUE, 0, NoTask)

UpdateTask(tasks, updated, t1) ==
  LET i == IndexOf(tasks, updated.id) IN
  IF i = 0 THEN Result(tasks, "not_found", FALSE, 0, NoTask)
  ELSE Result([tasks EXCEPT ![i] = [updated EXCEPT !.updatedAt = t1]],
              "ok", TRUE, 0, NoTask)

\* UpdateStatus that stamps CompletedAt only when it is not yet set.
UpdateStatusKeepCompleted(tasks, taskID, status, reason, t1, t2) ==
  LET i == IndexOf(tasks, taskID) IN
  IF i = 0 THEN Result(tasks, "not_found", FALSE, 0, NoTask)
  ELSE Result(
         [tasks EXCEPT ![i] =
            [@ EXCEPT !.status = status,
                      !.updatedAt = t1,
                      !.failReason = IF reason # "" THEN reason ELSE @,
                      !.completedAt = IF IsTerminal(status) /\ @ = 0 THEN t2 ELSE @]],
         "ok", TRUE, 0, NoTask)

\* UpdateStatus that also takes the task from its worker.
UpdateStatusDropsWorker(tasks, taskID, status, reason, t1, t2) ==
  LET i == IndexOf(tasks, taskID) IN
  IF i = 0 THEN Result(tasks, "not_found", FALSE, 0, NoTask)
  ELSE Result(
         [tasks EXCEPT ![i] =
            [@ EXCEPT !.status = status,
                      !.updatedAt = t1,
                      !.workerID = 0,
                      !.failReason = IF reason # "" THEN reason ELSE @,
                      !.completedAt = IF IsTerminal(status) THEN t2 ELSE @]],
         "ok", TRUE, 0, NoTask)

UpdateStatus(tasks, taskID, status, reason, t1, t2) ==
  LET i == IndexOf(tasks, taskID) IN
  IF i = 0 THEN Result(tasks, "not_found", FALSE, 0, NoTask)
  ELSE Result(
         [tasks EXCEPT ![i] =
            [@ EXCEPT !.status = status,
                      !.updatedAt = t1,
                      !.failReason = IF reason # "" THEN reason ELSE @,
                      !.completedAt = IF IsTerminal(status) THEN t2 ELSE @]],
         "ok", TRUE, 0, NoTask)

\* RecoverInProgress that also resets the failed tasks.
RecoverInProgressAndFailed(tasks, t1, t2) ==
  LET act == {i \in 1..Len(tasks) :
                IsActive(tasks[i].status) \/ tasks[i].status = StatusFailed}
      first(i) == \A j \in act : i <= j
      reset == [i \in 1..Len(tasks) |->
                  IF i \in act
                  THEN ResetForRetry(tasks[i], IF first(i) THEN t1 ELSE t2)
                  ELSE tasks[i]]
  IN Result(reset, "ok", Cardinality(act) > 0, Cardinality(act), NoTask)

\* The first task reset reads the clock at t1, the later ones at t2.
RecoverInProgress(tasks, t1, t2) ==
  LET act == {i \in 1..Len(tasks) : IsActive(tasks[i].status)}
      first(i) == \A j \in act : i <= j
      reset == [i \in 1..Len(tasks) |->
                  IF i \in act
                  THEN ResetForRetry(tasks[i], IF first(i) THEN t1 ELSE t2)
                  ELSE tasks[i]]
  IN Result(reset, "ok", Cardinality(act) > 0, Cardinality(act), NoTask)

\* AddTask without the duplicate check.
AddTaskUnchecked(tasks, t) == Result(Append(tasks, t), "ok", TRUE, 0, NoTask)

AddTask(tasks, t) ==
  IF \E i \in 1..Len(tasks) : tasks[i].id = t.id
  THEN Result(tasks, "duplicate", FALSE, 0, NoTask)
  ELSE Result(Append(tasks, t), "ok", TRUE, 0, NoTask)

DeleteTask(tasks, taskID) ==
  IF IndexOf(tasks, taskID) = 0
  THEN Result(tasks, "not_found", FALSE, 0, NoTask)
  ELSE Result(SelectSeqNotID(tasks, taskID), "ok", TRUE, 0, NoTask)

LoadAll(tasks) == Result(tasks, "ok", FALSE, 0, NoTask)


\* --------------------------------------------------- the registry as a file

\* json.MarshalIndent of a task list, as the sequence of tokens written to the
\* file: the opening bracket, one object per task, the closing bracket.
Tok(k, t) == [k |-> k, t |-> t]

Marshal(tasks) ==
  <<Tok("open", NoTask)>> \o [i \in 1..Len(tasks) |-> Tok("task", tasks[i])]
    \o <<Tok("close", NoTask)>>

\* json.Unmarshal into []Task: an error unless the data is exactly one array
\* of task objects (an empty or truncated file, a hole or trailing data after
\* the closing bracket is a parse error).
Unmarshal(data) ==
  LET n == Len(data)
      ok == /\ n >= 2
            /\ data[1].k = "open"
            /\ data[n].k = "close"
            /\ \A i \in 2..(n - 1) : data[i].k = "task"
  IN [ok |-> ok,
      tasks |-> IF ok THEN [i \in 1..(n - 2) |-> data[i + 1].t] ELSE <<>>]

\* A path that names no file, and a file with the given content.
Absent == [exists |-> FALSE, data |-> <<>>]

File(data) == [exists |-> TRUE, data |-> data]

\* loadAllLocked that takes a file it cannot parse for an empty registry.
loadAllLockedLenient(f) ==
  IF ~f.exists \/ ~Unmarshal(f.data).ok THEN [ok |-> TRUE, tasks |-> <<>>]
  ELSE Unmarshal(f.data)

\* loadAllLocked / LoadAll: a missing file is the empty list, malformed JSON
\* is an error.
loadAllLocked(f) ==
  IF ~f.exists THEN [ok |-> TRUE, tasks |-> <<>>] ELSE Unmarshal(f.data)

\* saveAllLocked writing the registry file in place.
TmpPathInPlace == "canon"

\* The path saveAllLocked writes before renaming it over the registry.
TmpPath == "tmp"

\* A write of one token at offset i (0-based) of a file's data; bytes skipped
\* over in a file that was truncated meanwhile read as a hole.
WriteAt(data, i, tok) ==
  LET padded == data \o [j \in 1..(i - Len(data)) |-> Tok("hole", NoTask)]
  IN IF i < Len(padded) THEN [padded EXCEPT ![i + 1] = tok]
     ELSE Append(padded, tok)

\* Every Manager method taking only the read lock.
LockKindShared(name) == "r"

\* Which side of the RWMutex a Manager method takes: "r" for RLock.
LockKind(name) == IF name \in {"load_all", "get"} THEN "r" ELSE "w"

VARIABLES
  now,       \* the value of the last time.Now()
  files,     \* path -> file: "canon" is the registry, "tmp" its temp file
  fd,        \* proc -> the file its open descriptor writes to
  off,       \* proc -> tokens of wbuf written so far
  mgrOf,     \* proc -> the Manager (one mutex each) it calls
  lockW,     \* manager -> the proc holding Lock, or "none"
  lockR,     \* manager -> the procs holding RLock
  pc,        \* proc -> its position in the Manager call
  op,        \* proc -> the call in progress
  snap,      \* proc -> the list loaded by the call
  wbuf,      \* proc -> the marshalled data handed to saveAllLocked
  res,       \* proc -> the error returned by its last call
  got,       \* proc -> the task returned by its last GetByID
  calls,     \* Manager calls started so far
  ghost,     \* the registry after the calls so far, applied one after another
  lastSave,  \* the lists before and after the last saveAllLocked started
  killedAt,  \* position of the call cut short by the last kill
  start      \* the registry at the start of the behaviour

fsVars ==
  <<files, fd, off, mgrOf, lockW, lockR, pc, op, snap, wbuf, res, got, calls,
    ghost, lastSave, killedAt, start>>

\* State of the orchestrator process and of the external commands.
VARIABLES
  reg,        \* the registry: the task list the registry file holds
  cfgRecover, \* config.RecoverInProgressOnStartup
  cfgGit,     \* config.GitIntegration.Enabled
  runPc,      \* position of Run: "start", "recovered", "pool", "running"
  recovered,  \* the count RecoverInProgress returned to Run
  dPc,        \* position of the dispatcher in its tick
  dTask,      \* t.ID of the task the dispatcher's tick is about
  ticked,     \* the dispatcher has started a tick in this run
  taskChan,   \* Pool.taskChan: ids of the submitted tasks
  wTask,      \* worker -> id of the task it executes, 0 when it waits
  resultChan, \* Pool.resultChan
  extGot,     \* the task the retry command got and has not yet written back
  nukeList,   \* ids the TUI's Nuke has loaded and not yet failed
  extCalls,   \* external commands issued so far
  restarts,   \* restarts of the orchestrator process so far
  orphans,    \* ids found in_progress or reviewing when the process started
  recCalls,   \* the RecoverInProgress calls made one right after the other
  dGit,       \* what the git client answered in the dispatcher's current tick
  cfgCreatePR,\* config.GitIntegration.CreatePR
  hPc,        \* position of the result handler in processResult
  hRes,       \* the result processResult is about (kept until the next one)
  hLeft,      \* result.NewTasks not yet added
  hDup,       \* ids of the new tasks whose AddTask returned the duplicate error
  gitLog,     \* the git client calls processResult made for hRes, in order
  plans,      \* plans the workers have parsed so far
  ctxDone,    \* the context handed to Run is cancelled
  taskOpen,   \* Pool.taskChan is not closed
  resultOpen, \* Pool.resultChan is not closed
  sPc,        \* position of Run in Shutdown and Pool.Stop
  wExit,      \* worker -> its loop has returned
  hExit,      \* handleResults has returned
  xPc,        \* position of Driver.execute
  child,      \* the agent process: "none", "running", "exited", "killed"
  xCode,      \* exit code of the agent process, -1 while it has none
  outBuf,     \* stdoutBuf and stderrBuf: what the agent has written
  xCtx,       \* ctx.Err() of the context handed to execute
  doneErr,    \* the done channel: the error of cmd.Wait, "none" when empty
  xRet,       \* what execute returned
  xOrder,     \* which came first: the agent's exit or the cancellation
  xWaited,    \* the context expired on an execute blocked in its select
  cfgStop,    \* config.StopTokens
  restartCount, \* Driver.restartCount
  isRunning,  \* Driver.isRunning
  rPc,        \* caller -> its position in Driver.Restart
  rTag,       \* caller -> the resets that preceded its accepted Restart
  rRet,       \* caller -> the error its last Restart returned
  rEpoch,     \* the ResetRestartCount calls made so far
  rOk,        \* resets before -> the Restart calls accepted then that returned nil
  callLog     \* the Manager calls made one by one, with what they returned

orchVars ==
  <<reg, cfgRecover, cfgGit, runPc, recovered, dPc, dTask, ticked, taskChan,
    wTask, resultChan, extGot, nukeList, extCalls, restarts, orphans, recCalls,
    dGit, cfgCreatePR, hPc, hRes, hLeft, hDup, gitLog, plans, ctxDone,
    taskOpen, resultOpen, sPc, wExit, hExit, xPc, child, xCode, outBuf,
    xCtx, doneErr, xRet, xOrder, xWaited, cfgStop, restartCount, isRunning,
    rPc, rTag, rRet, rEpoch, rOk, callLog>>

\* State of the result handler's steps and of the workers' plans.
hVars == <<cfgCreatePR, hPc, hRes, hLeft, hDup, gitLog, plans>>

\* State of the shutdown: the context, the pool's channels, the goroutines.
stopVars == <<ctxDone, taskOpen, resultOpen, sPc, wExit, hExit>>

\* State of the agent driver's execute and of the agent process.
drvVars ==
  <<xPc, child, xCode, outBuf, xCtx, doneErr, xRet, xOrder, xWaited, cfgStop>>

\* State of the driver's restarts.
rstVars == <<restartCount, isRunning, rPc, rTag, rRet, rEpoch, rOk>>

\* What the orchestrator's goroutines and the agent process leave alone.
auxVars == <<rstVars, callLog>>

\* The orchestrator, its pool, its handler, its shutdown and the driver's
\* execute.
runVars ==
  <<reg, cfgRecover, cfgGit, runPc, recovered, dPc, dTask, ticked, taskChan,
    wTask, resultChan, extGot, nukeList, extCalls, restarts, orphans, recCalls,
    dGit, hVars, stopVars, drvVars>>

Managers == {"m1", "m2"}

NoOp == [name |-> "none", id |-> 0, st |-> "", reason |-> "", w |-> 0]

Op(name, id, st, reason, w) ==
  [name |-> name, id |-> id, st |-> st, reason |-> reason, w |-> w]

ClaimOps(p) == {Op("claim", id, "", "", WorkerOf(p)) : id \in TaskIDs}

StatusOps(st, reason) == {Op("update_status", id, st, reason, 0) : id \in TaskIDs}

IdOps(names) == {Op(n, id, "", "", 0) : n \in names, id \in TaskIDs}

\* The calls each caller makes. p1, as the orchestrator's loops: claim, the
\* dispatcher's revert to pending, the result handler's status write,
\* recovery. p2, as the TUI: add, delete, nuke, list. p3, as the CLI's
\* commands: retry (get, then update), delete, done, list.
AllOps(p) ==
  CASE p = "p1" -> ClaimOps(p) \cup StatusOps(StatusPending, "")
                     \cup StatusOps(StatusCompleted, "")
                     \cup {Op("recover", 0, "", "", 0)}
    [] p = "p2" -> IdOps({"add", "delete"}) \cup StatusOps(StatusFailed, "Nuked by user")
                     \cup {Op("load_all", 0, "", "", 0)}
    [] OTHER -> IdOps({"get", "delete"}) \cup StatusOps(StatusCompleted, "CLI Update")
                  \cup {Op(n, 0, "", "", 0) : n \in {"update", "load_all"}}

\* The clock values a time.Now() may return after one that returned t.
Later(t) == {u \in t..(t + 1) : u <= MaxClock}

\* The Manager method of a call, applied to the list it loaded.
Apply(o, tasks, g, t1, t2) ==
  CASE o.name = "claim" -> ClaimTask(tasks, o.id, o.w, t1, t2)
    [] o.name = "update_status" -> UpdateStatus(tasks, o.id, o.st, o.reason, t1, t2)
    [] o.name = "add" -> AddTask(tasks, NewTask(o.id, 0, t1))
    [] o.name = "delete" -> DeleteTask(tasks, o.id)
    [] o.name = "get" -> GetByID(tasks, o.id)
    [] o.name = "update" -> UpdateTask(tasks, ResetForRetry(g, t1), t2)
    [] o.name = "recover" -> RecoverInProgress(tasks, t1, t2)
    [] o.name = "next_pending" ->
         Result(tasks, "ok", FALSE, 0, GetNextPending(tasks))
    [] OTHER -> LoadAll(tasks)

\* m.mu.Lock() / m.mu.RLock() on entry of a Manager method.
Begin(p, o) ==
  LET m == mgrOf[p] IN
  /\ pc[p] = "idle"
  /\ calls < MaxCalls
  /\ o.name = "update" => got[p] # NoTask
  /\ IF LockKind(o.name) = "w"
     THEN /\ lockW[m] = "none" /\ lockR[m] = {}
          /\ lockW' = [lockW EXCEPT ![m] = p]
          /\ UNCHANGED lockR
     ELSE /\ lockW[m] = "none"
          /\ lockR' = [lockR EXCEPT ![m] = @ \cup {p}]
          /\ UNCHANGED lockW
  /\ pc' = [pc EXCEPT ![p] = "locked"]
  /\ op' = [op EXCEPT ![p] = o]
  /\ calls' = calls + 1
  /\ killedAt' = "none"
  /\ UNCHANGED <<now, files, fd, off, mgrOf, snap, wbuf, res, got, ghost, lastSave, start>>
  /\ UNCHANGED orchVars

\* loadAllLocked, then the body of the method up to its saveAllLocked call.
Load(p) ==
  /\ pc[p] = "locked"
  /\ LET in == loadAllLocked(files["canon"]) IN
     IF ~in.ok
     THEN /\ res' = [res EXCEPT ![p] = "parse"]
          /\ pc' = [pc EXCEPT ![p] = "unlock"]
          /\ UNCHANGED <<now, snap, wbuf, got, ghost, lastSave>>
     ELSE \E t1 \in Later(now) : \E t2 \in Later(t1) :
            LET r == Apply(op[p], in.tasks, got[p], t1, t2)
                g == Apply(op[p], ghost, got[p], t1, t2)
            IN /\ now' = t2
               /\ snap' = [snap EXCEPT ![p] = in.tasks]
               /\ got' = [got EXCEPT ![p] =
                            IF op[p].name = "get" THEN r.task
                            ELSE IF op[p].name = "update" THEN NoTask ELSE @]
               /\ ghost' = IF g.save THEN g.tasks ELSE ghost
               /\ IF r.save
                  THEN /\ wbuf' = [wbuf EXCEPT ![p] = Marshal(r.tasks)]
                       /\ lastSave' = [old |-> in.tasks, new |-> r.tasks]
                       /\ pc' = [pc EXCEPT ![p] = "save"]
                       /\ res' = [res EXCEPT ![p] = "none"]
                  ELSE /\ res' = [res EXCEPT ![p] = r.err]
                       /\ pc' = [pc EXCEPT ![p] = "unlock"]
                       /\ UNCHANGED <<wbuf, lastSave>>
  /\ UNCHANGED <<files, fd, off, mgrOf, lockW, lockR, op, calls, killedAt, start>>
  /\ UNCHANGED orchVars

\* os.WriteFile(tmpPath, ...): open with O_CREATE|O_TRUNC.
OpenTmp(p) ==
  /\ pc[p] = "save"
  /\ files' = [files EXCEPT ![TmpPath] = File(<<>>)]
  /\ fd' = [fd EXCEPT ![p] = TmpPath]
  /\ off' = [off EXCEPT ![p] = 0]
  /\ pc' = [pc EXCEPT ![p] = "write"]
  /\ UNCHANGED <<now, mgrOf, lockW, lockR, op, snap, wbuf, res, got, calls,
                 ghost, lastSave, killedAt, start>>
  /\ UNCHANGED orchVars

\* os.WriteFile: the next token goes to the open file; the file is closed
\* after the last one.
WriteTmp(p) ==
  /\ pc[p] = "write"
  /\ files' = IF fd[p] \in {"canon", "tmp"}
              THEN [files EXCEPT ![fd[p]].data = WriteAt(@, off[p], wbuf[p][off[p] + 1])]
              ELSE files
  /\ off' = [off EXCEPT ![p] = @ + 1]
  /\ IF off[p] + 1 = Len(wbuf[p])
     THEN /\ pc' = [pc EXCEPT ![p] = "rename"]
          /\ fd' = [fd EXCEPT ![p] = "none"]
     ELSE UNCHANGED <<pc, fd>>
  /\ UNCHANGED <<now, mgrOf, lockW, lockR, op, snap, wbuf, res, got, calls,
                 ghost, lastSave, killedAt, start>>
  /\ UNCHANGED orchVars

\* os.Rename(tmpPath, m.filePath): the registry path now names the temp
\* file's inode, and so does every descriptor still open on it; ENOENT (and
\* os.Remove of the missing temp file) when another writer renamed it away.
Rename(p) ==
  /\ pc[p] = "rename"
  /\ IF TmpPath = "canon"
     THEN /\ res' = [res EXCEPT ![p] = "ok"]
          /\ UNCHANGED <<files, fd>>
     ELSE IF files[TmpPath].exists
     THEN /\ files' = [files EXCEPT !["canon"] = files[TmpPath], ![TmpPath] = Absent]
          /\ fd' = [q \in Procs |->
                      IF fd[q] = TmpPath THEN "canon"
                      ELSE IF fd[q] = "canon" THEN "unlinked" ELSE fd[q]]
          /\ res' = [res EXCEPT ![p] = "ok"]
     ELSE /\ res' = [res EXCEPT ![p] = "io"]
          /\ UNCHANGED <<files, fd>>
  /\ pc' = [pc EXCEPT ![p] = "unlock"]
  /\ UNCHANGED <<now, off, mgrOf, lockW, lockR, op, snap, wbuf, got, calls,
                 ghost, lastSave, killedAt, start>>
  /\ UNCHANGED orchVars

\* defer m.mu.Unlock() / m.mu.RUnlock(), and the return. The method's locals
\* are gone; with keep, the call and its outcome stay on record for the
\* caller (op, res, and in wbuf the data it saved).
Unlock(p, keep) ==
  LET m == mgrOf[p] IN
  /\ pc[p] = "unlock"
  /\ lockW' = [lockW EXCEPT ![m] = IF @ = p THEN "none" ELSE @]
  /\ lockR' = [lockR EXCEPT ![m] = @ \ {p}]
  /\ pc' = [pc EXCEPT ![p] = "idle"]
  /\ snap' = [snap EXCEPT ![p] = <<>>]
  /\ off' = [off EXCEPT ![p] = 0]
  /\ IF keep
     THEN UNCHANGED <<op, res, wbuf>>
     ELSE /\ op' = [op EXCEPT ![p] = NoOp]
          /\ res' = [res EXCEPT ![p] = "none"]
          /\ wbuf' = [wbuf EXCEPT ![p] = <<>>]
  /\ UNCHANGED <<now, files, fd, mgrOf, got, calls, ghost, lastSave, killedAt, start>>
  /\ UNCHANGED orchVars

\* The process owning Manager m is killed (and may be started again): its
\* goroutines, its mutex and its descriptors are gone, the files stay as they
\* are.
Kill(m) ==
  LET mine == {p \in Procs : mgrOf[p] = m}
  IN
  /\ \E p \in mine : pc[p] # "idle"
  /\ killedAt' = IF \E p \in mine : pc[p] \in {"save", "write", "rename"}
                 THEN pc[CHOOSE p \in mine : pc[p] \in {"save", "write", "rename"}]
                 ELSE IF \E p \in mine : pc[p] = "unlock" /\ res[p] = "ok" /\ wbuf[p] # <<>>
                 THEN "unlock" ELSE "none"
  /\ pc' = [p \in Procs |-> IF p \in mine THEN "idle" ELSE pc[p]]
  /\ fd' = [p \in Procs |-> IF p \in mine THEN "none" ELSE fd[p]]
  /\ off' = [p \in Procs |-> IF p \in mine THEN 0 ELSE off[p]]
  /\ op' = [p \in Procs |-> IF p \in mine THEN NoOp ELSE op[p]]
  /\ snap' = [p \in Procs |-> IF p \in mine THEN <<>> ELSE snap[p]]
  /\ wbuf' = [p \in Procs |-> IF p \in mine THEN <<>> ELSE wbuf[p]]
  /\ got' = [p \in Procs |-> IF p \in mine THEN NoTask ELSE got[p]]
  /\ res' = [p \in Procs |-> IF p \in mine THEN "none" ELSE res[p]]
  /\ lockW' = [lockW EXCEPT ![m] = "none"]
  /\ lockR' = [lockR EXCEPT ![m] = {}]
  /\ ghost' = LET in == loadAllLocked(files["canon"]) IN
              IF in.ok THEN in.tasks ELSE ghost
  /\ UNCHANGED <<now, files, mgrOf, calls, lastSave, start>>
  /\ UNCHANGED orchVars

\* A task as ClaimTask leaves it for worker w.
Claimed(id, w) == MarkInProgress(NewTask(id, 0, 1), w, 1, 1)

\* The registry at the start of the file-level behaviours: one task claimed
\* by worker 1 and one pending.
StartRegistry == <<Claimed(1, 1), NewTask(2, 0, 1)>>

\* Registries for concurrent claims: both tasks pending, or the first one
\* already claimed or completed.
ClaimRegistries ==
  {<<NewTask(1, 0, 1), NewTask(2, 1, 1)>>,
   StartRegistry,
   <<[NewTask(1, 0, 1) EXCEPT !.status = StatusCompleted, !.completedAt = 1],
     NewTask(2, 0, 1)>>}

\* What the git client answered to the dispatcher: "dirty" when IsClean
\* returned false or an error, "branch_failed" or "ok" for CheckoutNewBranch
\* of the branch of task id `branch` (branch_prefix + t.ID) from base_branch.
GitAnswer(answer, branch) == [answer |-> answer, branch |-> branch]

NoGit == GitAnswer("none", 0)

\* A TaskResult: the task's id, the final status, the error text and the
\* tasks of the agent's plan (none here).
TaskResult(id, status, err) ==
  [id |-> id, status |-> status, err |-> err, newTasks |-> <<>>]

\* No result (a nil *TaskResult).
NoResult == TaskResult(0, "", "")

\* The agent's output: the buffers of its stdout and of its stderr.
Output(stdout, stderr) == [stdout |-> stdout, stderr |-> stderr]

NoOutput == Output(<<>>, <<>>)

\* The values execute returns: output, success, err.
Return(out, success, err) == [out |-> out, success |-> success, err |-> err]

NoReturn == Return(<<>>, FALSE, "none")

Workers == 1..NumWorkers

ActiveIDs(tasks) == {tasks[i].id : i \in {j \in 1..Len(tasks) : IsActive(tasks[j].status)}}

\* The orchestrator process before Run, on registry r.
InitOrch(r, rec, git) ==
  /\ reg = r
  /\ cfgRecover = rec
  /\ cfgGit = git
  /\ runPc = "start"
  /\ recovered = 0
  /\ dPc = "idle"
  /\ dTask = 0
  /\ ticked = FALSE
  /\ taskChan = <<>>
  /\ wTask = [w \in Workers |-> 0]
  /\ resultChan = <<>>
  /\ extGot = NoTask
  /\ nukeList = {}
  /\ extCalls = 0
  /\ restarts = 0
  /\ orphans = ActiveIDs(r)
  /\ recCalls = <<>>
  /\ dGit = NoGit
  /\ hPc = "idle"
  /\ hRes = NoResult
  /\ hLeft = <<>>
  /\ hDup = {}
  /\ gitLog = <<>>
  /\ plans = 0
  /\ ctxDone = FALSE
  /\ taskOpen = TRUE
  /\ resultOpen = TRUE
  /\ sPc = "run"
  /\ wExit = [w \in Workers |-> FALSE]
  /\ hExit = FALSE
  /\ xPc = "idle"
  /\ child = "none"
  /\ xCode = -1
  /\ outBuf = NoOutput
  /\ xCtx = "live"
  /\ doneErr = "none"
  /\ xRet = NoReturn
  /\ xOrder = "none"
  /\ xWaited = FALSE
  /\ restartCount = 0
  /\ isRunning = FALSE
  /\ rPc = [c \in Callers |-> "idle"]
  /\ rTag = [c \in Callers |-> 0]
  /\ rRet = [c \in Callers |-> "none"]
  /\ rEpoch = 0
  /\ rOk = [e \in 0..MaxResets |-> 0]
  /\ callLog = <<>>

InitFiles(r0) ==
  /\ now = 1
  /\ files = [f \in {"canon", "tmp"} |-> IF f = "canon" THEN File(Marshal(r0)) ELSE Absent]
  /\ fd = [p \in Procs |-> "none"]
  /\ off = [p \in Procs |-> 0]
  /\ lockW = [m \in Managers |-> "none"]
  /\ lockR = [m \in Managers |-> {}]
  /\ pc = [p \in Procs |-> "idle"]
  /\ op = [p \in Procs |-> NoOp]
  /\ snap = [p \in Procs |-> <<>>]
  /\ wbuf = [p \in Procs |-> <<>>]
  /\ res = [p \in Procs |-> "none"]
  /\ got = [p \in Procs |-> NoTask]
  /\ calls = 0
  /\ ghost = r0
  /\ lastSave = [old |-> r0, new |-> r0]
  /\ killedAt = "none"
  /\ start = r0

\* Every caller goes through the one Manager of one process.
InitOne ==
  /\ InitFiles(StartRegistry)
  /\ InitOrch(StartRegistry, TRUE, FALSE)
  /\ cfgCreatePR = FALSE
  /\ cfgStop = {}
  /\ mgrOf = [p \in Procs |-> "m1"]

\* The orchestrator's Manager and the Manager of a CLI/TUI process on the
\* same registry path.
InitMulti ==
  /\ InitFiles(StartRegistry)
  /\ InitOrch(StartRegistry, TRUE, FALSE)
  /\ cfgCreatePR = FALSE
  /\ cfgStop = {}
  /\ mgrOf = [p \in Procs |-> IF p = "p3" THEN "m2" ELSE "m1"]

Step(p) ==
  \/ Load(p)
  \/ OpenTmp(p)
  \/ WriteTmp(p)
  \/ Rename(p)

NextFS ==
  \/ \E p \in Procs : \E o \in AllOps(p) : Begin(p, o)
  \/ \E p \in Procs : Step(p)
  \/ \E p \in Procs : Unlock(p, FALSE)
  \/ \E m \in Managers : Kill(m)

\* Concurrent ClaimTask calls only, one per caller.
NextClaim ==
  \/ \E p \in Procs : \E o \in ClaimOps(p) : op[p] = NoOp /\ Begin(p, o)
  \/ \E p \in Procs : Step(p)
  \/ \E p \in Procs : Unlock(p, TRUE)


\* ------------------------------------------------- orchestrator and pool

\* cap(p.taskChan) and cap(p.resultChan).
ChanCap == NumWorkers * 2

\* A pool that never accepts a task.
IsFullAlways(ch) == TRUE

\* A pool that never reports itself full.
IsFullNever(ch) == FALSE

IsFull(ch) == Len(ch) >= ChanCap

\* The task with this id in a list, NoTask when there is none.
TaskOf(tasks, id) == IF IndexOf(tasks, id) = 0 THEN NoTask ELSE tasks[IndexOf(tasks, id)]

\* The results a worker may report for a task.
Outcomes(id) ==
  {TaskResult(id, StatusCompleted, ""), TaskResult(id, StatusFailed, "agent failed")}

\* Run: recover stuck tasks.
RunRecover ==
  /\ runPc = "start"
  /\ IF cfgRecover
     THEN \E t1 \in Later(now) : \E t2 \in Later(t1) :
            LET r == RecoverInProgress(reg, t1, t2) IN
            /\ reg' = IF r.save THEN r.tasks ELSE reg
            /\ now' = IF r.save THEN t2 ELSE now
            /\ recovered' = r.n
     ELSE UNCHANGED <<reg, now, recovered>>
  /\ runPc' = "recovered"
  /\ UNCHANGED <<cfgRecover, cfgGit, dPc, dTask, ticked, taskChan, wTask,
                 resultChan, extGot, nukeList, extCalls, restarts, orphans>>
  /\ UNCHANGED <<fsVars, recCalls, dGit, hVars, stopVars, drvVars, auxVars>>

\* Run: o.workerPool.Start(ctx).
RunStartPool ==
  /\ runPc = "recovered"
  /\ runPc' = "pool"
  /\ UNCHANGED <<now, reg, cfgRecover, cfgGit, recovered, dPc, dTask, ticked,
                 taskChan, wTask, resultChan, extGot, nukeList, extCalls,
                 restarts, orphans>>
  /\ UNCHANGED <<fsVars, recCalls, dGit, hVars, stopVars, drvVars, auxVars>>

\* Run: go o.dispatchTasks(ctx); go o.handleResults(ctx).
RunSpawn ==
  /\ runPc = "pool"
  /\ runPc' = "running"
  /\ UNCHANGED <<now, reg, cfgRecover, cfgGit, recovered, dPc, dTask, ticked,
                 taskChan, wTask, resultChan, extGot, nukeList, extCalls,
                 restarts, orphans>>
  /\ UNCHANGED <<fsVars, recCalls, dGit, hVars, stopVars, drvVars, auxVars>>

\* The dispatcher skips the git steps.
AfterClaimNoGit(git) == "submit"

\* Where the dispatcher goes after a successful claim.
AfterClaim(git) == IF git THEN "git" ELSE "submit"

\* dispatchTasks, a tick: IsFull, then GetNextPending.
DispatchTick ==
  /\ runPc = "running"
  /\ dPc = "idle"
  /\ ticked' = TRUE
  /\ LET t == GetNextPending(reg) IN
     IF IsFull(taskChan) \/ t = NoTask
     THEN UNCHANGED <<dPc, dTask>>
     ELSE /\ dPc' = "claim"
          /\ dTask' = t.id
  /\ UNCHANGED <<now, reg, cfgRecover, cfgGit, runPc, recovered, taskChan, wTask,
                 resultChan, extGot, nukeList, extCalls, restarts, orphans>>
  /\ dGit' = NoGit
  /\ UNCHANGED <<fsVars, recCalls, hVars, stopVars, drvVars, auxVars>>

\* dispatchTasks: ClaimTask(t.ID, 0).
DispatchClaim ==
  /\ dPc = "claim"
  /\ \E t1 \in Later(now) : \E t2 \in Later(t1) :
       LET r == ClaimTask(reg, dTask, 0, t1, t2) IN
       IF r.err = "ok"
       THEN /\ reg' = r.tasks
            /\ now' = t2
            /\ dPc' = AfterClaim(cfgGit)
            /\ UNCHANGED dTask
       ELSE /\ dPc' = "idle"
            /\ dTask' = 0
            /\ UNCHANGED <<reg, now>>
  /\ UNCHANGED <<cfgRecover, cfgGit, runPc, recovered, ticked, taskChan, wTask,
                 resultChan, extGot, nukeList, extCalls, restarts, orphans>>
  /\ UNCHANGED <<fsVars, recCalls, dGit, hVars, stopVars, drvVars, auxVars>>

\* dispatchTasks with git integration: IsClean, then CheckoutNewBranch. The
\* git client answers "dirty" (or an error), "branch_failed" or "ok".
DispatchGit ==
  /\ dPc = "git"
  /\ \E answer \in {"dirty", "branch_failed", "ok"} :
     \E t1 \in Later(now) : \E t2 \in Later(t1) :
       LET r == IF answer = "dirty"
                THEN UpdateStatus(reg, dTask, StatusPending, "", t1, t2)
                ELSE UpdateStatus(reg, dTask, StatusFailed, "git branch failed", t1, t2)
       IN /\ dGit' = GitAnswer(answer, IF answer = "dirty" THEN 0 ELSE dTask)
          /\ IF answer = "ok"
             THEN /\ dPc' = "submit"
                  /\ UNCHANGED <<reg, now, dTask>>
             ELSE /\ reg' = IF r.save THEN r.tasks ELSE reg
                  /\ now' = IF r.save THEN t2 ELSE now
                  /\ dPc' = "idle"
                  /\ dTask' = 0
  /\ UNCHANGED <<cfgRecover, cfgGit, runPc, recovered, ticked, taskChan, wTask,
                 resultChan, extGot, nukeList, extCalls, restarts, orphans>>
  /\ UNCHANGED <<fsVars, recCalls, hVars, stopVars, drvVars, auxVars>>

\* dispatchTasks: Pool.Submit, and the revert to pending when it refuses. The
\* send of Submit on a closed task channel panics: the process is gone with
\* its channels and goroutines.
DispatchSubmit ==
  /\ dPc = "submit"
  /\ IF ~taskOpen
     THEN /\ dPc' = "panic"
          /\ runPc' = "crashed"
          /\ taskChan' = <<>>
          /\ resultChan' = <<>>
          /\ wTask' = [w \in Workers |-> 0]
          /\ UNCHANGED <<reg, now, dTask>>
     ELSE /\ IF ~IsFull(taskChan)
             THEN /\ taskChan' = Append(taskChan, dTask)
                  /\ UNCHANGED <<reg, now>>
             ELSE \E t1 \in Later(now) : \E t2 \in Later(t1) :
                    LET r == UpdateStatus(reg, dTask, StatusPending, "", t1, t2) IN
                    /\ reg' = IF r.save THEN r.tasks ELSE reg
                    /\ now' = IF r.save THEN t2 ELSE now
                    /\ UNCHANGED taskChan
          /\ dPc' = "idle"
          /\ dTask' = 0
          /\ UNCHANGED <<runPc, wTask, resultChan>>
  /\ UNCHANGED <<cfgRecover, cfgGit, recovered, ticked, extGot, nukeList,
                 extCalls, restarts, orphans>>
  /\ dGit' = NoGit
  /\ UNCHANGED <<fsVars, recCalls, hVars, stopVars, drvVars, auxVars>>

\* A worker loop receives the next task from the task channel.
WorkerTake(w) ==
  /\ runPc \in {"pool", "running"}
  /\ ~wExit[w]
  /\ wTask[w] = 0
  /\ taskChan # <<>>
  /\ wTask' = [wTask EXCEPT ![w] = Head(taskChan)]
  /\ taskChan' = Tail(taskChan)
  /\ UNCHANGED <<now, reg, cfgRecover, cfgGit, runPc, recovered, dPc, dTask, ticked,
                 resultChan, extGot, nukeList, extCalls, restarts, orphans>>
  /\ UNCHANGED <<fsVars, recCalls, dGit, hVars, stopVars, drvVars, auxVars>>

\* The worker has run the agent and sends the result on the result channel.
WorkerFinish(w) ==
  /\ wTask[w] # 0
  /\ Len(resultChan) < ChanCap
  /\ \E r \in Outcomes(wTask[w]) : resultChan' = Append(resultChan, r)
  /\ wTask' = [wTask EXCEPT ![w] = 0]
  /\ UNCHANGED <<now, reg, cfgRecover, cfgGit, runPc, recovered, dPc, dTask, ticked,
                 taskChan, extGot, nukeList, extCalls, restarts, orphans>>
  /\ UNCHANGED <<fsVars, recCalls, dGit, hVars, stopVars, drvVars, auxVars>>

\* handleResults / processResult: UpdateStatus(t.ID, result.Status, reason).
ProcessResult ==
  /\ runPc = "running"
  /\ resultChan # <<>>
  /\ \E t1 \in Later(now) : \E t2 \in Later(t1) :
       LET res0 == Head(resultChan)
           r == UpdateStatus(reg, res0.id, res0.status, res0.err, t1, t2)
       IN /\ reg' = IF r.save THEN r.tasks ELSE reg
          /\ now' = IF r.save THEN t2 ELSE now
  /\ resultChan' = Tail(resultChan)
  /\ UNCHANGED <<cfgRecover, cfgGit, runPc, recovered, dPc, dTask, ticked, taskChan,
                 wTask, extGot, nukeList, extCalls, restarts, orphans>>
  /\ UNCHANGED <<fsVars, recCalls, dGit, hVars, stopVars, drvVars, auxVars>>

\* The orchestrator process stops (killed, or Run returned) and is started
\* again on the same registry: its channels and goroutines are gone, the
\* tasks it had claimed stay as the registry holds them.
Restart ==
  /\ runPc # "start"
  /\ restarts < MaxRestarts
  /\ restarts' = restarts + 1
  /\ runPc' = "start"
  /\ dPc' = "idle"
  /\ dTask' = 0
  /\ ticked' = FALSE
  /\ recovered' = 0
  /\ taskChan' = <<>>
  /\ resultChan' = <<>>
  /\ wTask' = [w \in Workers |-> 0]
  /\ orphans' = ActiveIDs(reg)
  /\ UNCHANGED <<now, reg, cfgRecover, cfgGit, extGot, nukeList, extCalls>>
  /\ dGit' = NoGit
  /\ UNCHANGED <<fsVars, recCalls, hVars, stopVars, drvVars, auxVars>>

\* A Manager call of an external command and the registry it leaves; first
\* says that the call is the first one of its command.
ExtCall(r, t2, first) ==
  /\ first => extCalls < MaxExt
  /\ extCalls' = IF first THEN extCalls + 1 ELSE extCalls
  /\ reg' = IF r.save THEN r.tasks ELSE reg
  /\ now' = IF r.save THEN t2 ELSE now
  /\ UNCHANGED <<cfgRecover, cfgGit, runPc, recovered, dPc, dTask, ticked, taskChan,
                 wTask, resultChan, restarts, orphans>>
  /\ UNCHANGED <<fsVars, recCalls, dGit, hVars, stopVars, drvVars, auxVars>>

\* hive add / the TUI's AddTask: AddTask(NewTask(id, ...)).
ExtAdd(id) ==
  /\ \E t1 \in Later(now) : ExtCall(AddTask(reg, NewTask(id, 0, t1)), t1, TRUE)
  /\ UNCHANGED <<extGot, nukeList>>

\* hive delete / the TUI's DeleteTask.
ExtDelete(id) ==
  /\ ExtCall(DeleteTask(reg, id), now, TRUE)
  /\ UNCHANGED <<extGot, nukeList>>

\* hive done: UpdateStatus(id, completed, "CLI Update").
ExtDone(id) ==
  /\ \E t1 \in Later(now) : \E t2 \in Later(t1) :
       ExtCall(UpdateStatus(reg, id, StatusCompleted, "CLI Update", t1, t2), t2, TRUE)
  /\ UNCHANGED <<extGot, nukeList>>

\* hive retry / the TUI's RetryTask, first half: GetByID.
RetryGet(id) ==
  /\ extGot = NoTask
  /\ ExtCall(GetByID(reg, id), now, TRUE)
  /\ extGot' = GetByID(reg, id).task
  /\ UNCHANGED nukeList

\* hive retry, second half: t.ResetForRetry(); UpdateTask(t).
RetryUpdate ==
  /\ extGot # NoTask
  /\ \E t1 \in Later(now) : \E t2 \in Later(t1) :
       ExtCall(UpdateTask(reg, ResetForRetry(extGot, t1), t2), t2, FALSE)
  /\ extGot' = NoTask
  /\ UNCHANGED nukeList

\* The TUI's Nuke, first half: LoadAll and the ids of the tasks that are
\* pending, in_progress or reviewing.
NukeLoad ==
  /\ nukeList = {}
  /\ ExtCall(LoadAll(reg), now, TRUE)
  /\ nukeList' = {reg[i].id : i \in {j \in 1..Len(reg) :
                     reg[j].status \in {StatusInProgress, StatusPending, StatusReviewing}}}
  /\ UNCHANGED extGot

\* The TUI's Nuke, the loop: UpdateStatus(id, failed, "Nuked by user").
NukeStep ==
  /\ nukeList # {}
  /\ LET id == CHOOSE x \in nukeList : \A y \in nukeList : x <= y IN
     /\ \E t1 \in Later(now) : \E t2 \in Later(t1) :
          LET r == UpdateStatus(reg, id, StatusFailed, "Nuked by user", t1, t2) IN
          /\ reg' = IF r.save THEN r.tasks ELSE reg
          /\ now' = IF r.save THEN t2 ELSE now
     /\ nukeList' = nukeList \ {id}
  /\ UNCHANGED <<cfgRecover, cfgGit, runPc, recovered, dPc, dTask, ticked, taskChan,
                 wTask, resultChan, extGot, extCalls, restarts, orphans>>
  /\ UNCHANGED <<fsVars, recCalls, dGit, hVars, stopVars, drvVars, auxVars>>

\* A task left in review, and a task that failed, in an earlier run.
Reviewing(id, w) == [Claimed(id, w) EXCEPT !.status = StatusReviewing, !.retryCount = 1]

Failed(id, w) ==
  [Claimed(id, w) EXCEPT !.status = StatusFailed, !.failReason = "agent failed",
                         !.completedAt = 1]

\* Registry and configuration found at startup: two pending tasks of
\* different priority with git integration; a task left in_progress by worker
\* 1 beside a pending one, with and without recovery on startup; a task left
\* in review beside a failed one with git integration.
Startups ==
  {<<<<NewTask(1, 0, 1), NewTask(2, 1, 1)>>, TRUE, TRUE>>,
   <<<<Claimed(1, 1), NewTask(2, 0, 1)>>, TRUE, FALSE>>,
   <<<<Claimed(1, 1), NewTask(2, 0, 1)>>, FALSE, FALSE>>,
   <<<<Reviewing(1, 1), Failed(2, 1)>>, TRUE, TRUE>>}


Init ==
  /\ \E s \in Startups : InitOrch(s[1], s[2], s[3])
  /\ cfgCreatePR = FALSE
  /\ cfgStop = {}
  /\ InitFiles(StartRegistry)
  /\ mgrOf = [p \in Procs |-> "m1"]

Next ==
  \/ RunRecover
  \/ RunStartPool
  \/ RunSpawn
  \/ DispatchTick
  \/ DispatchClaim
  \/ DispatchGit
  \/ DispatchSubmit
  \/ \E w \in Workers : WorkerTake(w)
  \/ \E w \in Workers : WorkerFinish(w)
  \/ ProcessResult
  \/ Restart
  \/ \E id \in TaskIDs : ExtAdd(id)
  \/ \E id \in TaskIDs : ExtDelete(id)
  \/ \E id \in TaskIDs : ExtDone(id)
  \/ \E id \in TaskIDs : RetryGet(id)
  \/ RetryUpdate
  \/ NukeLoad
  \/ NukeStep

vars == <<now, fsVars, orchVars>>

Spec == Init /\ [][Next]_vars

SpecOne == InitOne /\ [][NextFS]_vars

SpecMulti == InitMulti /\ [][NextFS]_vars

InitClaim ==
  /\ \E r \in ClaimRegistries : InitFiles(r) /\ InitOrch(r, TRUE, FALSE)
  /\ cfgCreatePR = FALSE
  /\ cfgStop = {}
  /\ mgrOf = [p \in Procs |-> "m1"]

SpecClaim == InitClaim /\ [][NextClaim]_vars


\* ------------------------------------- RecoverInProgress calls in a row

\* A task with the given status and stamps; a used task also carries a retry
\* count, a fail reason and a completed_at.
Shape(id, st, w, started, used) ==
  [id |-> id, title |-> "", role |-> "", priority |-> 0, status |-> st,
   workerID |-> w,
   retryCount |-> IF used THEN 1 ELSE 0,
   failReason |-> IF used THEN "agent failed" ELSE "",
   startedAt |-> started, completedAt |-> IF used THEN 1 ELSE 0, updatedAt |-> 1]

Shapes(id) ==
  {Shape(id, st, w, started, used) :
     st \in Statuses, w \in {0, 1}, started \in {0, 1}, used \in BOOLEAN}

\* Every registry of at most two tasks: any status with any stamps.
RecoverRegistries ==
  {<<>>} \cup {<<a>> : a \in Shapes(1)}
         \cup {<<a, b>> : a \in Shapes(1), b \in Shapes(2)}

\* One RecoverInProgress call through the Manager: the list it loaded, the
\* count it returns, whether it saved, and the list the file holds after it.
RecoverCall ==
  /\ Len(recCalls) < MaxRecover
  /\ \E t1 \in Later(now) : \E t2 \in Later(t1) :
       LET r == RecoverInProgress(reg, t1, t2) IN
       /\ reg' = IF r.save THEN r.tasks ELSE reg
       /\ now' = IF r.save THEN t2 ELSE now
       /\ recCalls' = Append(recCalls,
                        [n |-> r.n, save |-> r.save, before |-> reg,
                         after |-> IF r.save THEN r.tasks ELSE reg])
  /\ UNCHANGED <<cfgRecover, cfgGit, runPc, recovered, dPc, dTask, ticked, taskChan,
                 wTask, resultChan, extGot, nukeList, extCalls, restarts, orphans>>
  /\ UNCHANGED <<fsVars, dGit, hVars, stopVars, drvVars, auxVars>>

InitRecover ==
  /\ \E r \in RecoverRegistries : InitOrch(r, TRUE, FALSE)
  /\ cfgCreatePR = FALSE
  /\ cfgStop = {}
  /\ InitFiles(StartRegistry)
  /\ mgrOf = [p \in Procs |-> "m1"]

NextRecover == RecoverCall

SpecRecover == InitRecover /\ [][NextRecover]_vars


\* ------------------------------------- processResult, one call at a time

\* Titles and roles of the tasks of a plan block.
PlanTitles == <<"A", "B">>

PlanRoles == <<"backend", "qa">>

\* The k-th task the worker makes of the n-th plan: a fresh pending task
\* with an id minted from a counter (the ids after those of TaskIDs).
PlanTask(n, k, t) ==
  [NewTask(2 + 2 * n + k, 0, t) EXCEPT !.title = PlanTitles[k], !.role = PlanRoles[k]]

\* A completed result whose output held the n-th plan.
PlanResult(id, n, t) ==
  [TaskResult(id, StatusCompleted, "") EXCEPT
     !.newTasks = <<PlanTask(n, 1, t), PlanTask(n, 2, t)>>]

\* The worker sends its result; the output of a successful run may hold a
\* plan block.
WorkerFinishPlan(w) ==
  /\ wTask[w] # 0
  /\ Len(resultChan) < ChanCap
  /\ \/ /\ \E r \in Outcomes(wTask[w]) : resultChan' = Append(resultChan, r)
        /\ UNCHANGED plans
     \/ /\ plans < MaxPlans
        /\ resultChan' = Append(resultChan, PlanResult(wTask[w], plans, now))
        /\ plans' = plans + 1
  /\ wTask' = [wTask EXCEPT ![w] = 0]
  /\ UNCHANGED <<now, reg, cfgRecover, cfgGit, runPc, recovered, dPc, dTask, ticked,
                 taskChan, extGot, nukeList, extCalls, restarts, orphans>>
  /\ UNCHANGED <<fsVars, recCalls, dGit, cfgCreatePR, hPc, hRes, hLeft, hDup, gitLog,
                 stopVars, drvVars, auxVars>>

\* The handler adds the first task of the plan only.
NewTasksFirstOnly(result) ==
  IF result.newTasks = <<>> THEN <<>> ELSE <<Head(result.newTasks)>>

\* result.NewTasks, the tasks the handler's loop ranges over.
NewTasksOf(result) == result.newTasks

\* processResult commits for every result when git integration is on.
GitWantedAnyStatus(result) == cfgGit

\* processResult commits only for a completed result with git integration on.
GitWanted(result) == result.status = StatusCompleted /\ cfgGit

\* Where processResult goes once `left` new tasks remain to be added.
AfterAdds(result, left) ==
  IF left # <<>> THEN "add"
  ELSE IF GitWanted(result) THEN "add_all" ELSE "count"

\* The git step after git step `step` has returned ok (nil) or an error.
NextGit(step, ok) ==
  IF ~ok THEN "count"
  ELSE CASE step = "add_all" -> "commit"
         [] step = "commit" -> "push"
         [] step = "push" -> IF cfgCreatePR THEN "create_pr" ELSE "count"
         [] OTHER -> "count"

\* The handler starts on the plan of a result before it writes the status.
HandleTakeAddsFirst ==
  /\ runPc = "running"
  /\ hPc = "idle"
  /\ resultChan # <<>>
  /\ hRes' = Head(resultChan)
  /\ resultChan' = Tail(resultChan)
  /\ hPc' = IF NewTasksOf(Head(resultChan)) # <<>> THEN "add" ELSE "update"
  /\ hLeft' = NewTasksOf(Head(resultChan))
  /\ hDup' = {}
  /\ gitLog' = <<>>
  /\ UNCHANGED <<now, reg, cfgRecover, cfgGit, runPc, recovered, dPc, dTask, ticked,
                 taskChan, wTask, extGot, nukeList, extCalls, restarts, orphans>>
  /\ UNCHANGED <<fsVars, recCalls, dGit, cfgCreatePR, plans, stopVars, drvVars,
                 auxVars>>

\* handleResults: the next result is received from the result channel.
HandleTake ==
  /\ runPc = "running"
  /\ hPc = "idle"
  /\ resultChan # <<>>
  /\ hRes' = Head(resultChan)
  /\ resultChan' = Tail(resultChan)
  /\ hPc' = "update"
  /\ hLeft' = <<>>
  /\ hDup' = {}
  /\ gitLog' = <<>>
  /\ UNCHANGED <<now, reg, cfgRecover, cfgGit, runPc, recovered, dPc, dTask, ticked,
                 taskChan, wTask, extGot, nukeList, extCalls, restarts, orphans>>
  /\ UNCHANGED <<fsVars, recCalls, dGit, cfgCreatePR, plans, stopVars, drvVars,
                 auxVars>>

\* processResult: UpdateStatus(t.ID, result.Status, reason); an error is
\* logged.
HandleUpdate ==
  /\ hPc = "update"
  /\ \E t1 \in Later(now) : \E t2 \in Later(t1) :
       LET r == UpdateStatus(reg, hRes.id, hRes.status, hRes.err, t1, t2) IN
       /\ reg' = IF r.save THEN r.tasks ELSE reg
       /\ now' = IF r.save THEN t2 ELSE now
  /\ hLeft' = NewTasksOf(hRes)
  /\ hPc' = AfterAdds(hRes, NewTasksOf(hRes))
  /\ UNCHANGED <<cfgRecover, cfgGit, runPc, recovered, dPc, dTask, ticked, taskChan,
                 wTask, resultChan, extGot, nukeList, extCalls, restarts, orphans>>
  /\ UNCHANGED <<fsVars, recCalls, dGit, cfgCreatePR, hRes, hDup, gitLog, plans,
                 stopVars, drvVars, auxVars>>

\* processResult: AddTask(nt) for the next task of the plan; an error (a
\* duplicate id) is logged.
HandleAdd ==
  /\ hPc = "add"
  /\ LET r == AddTask(reg, Head(hLeft)) IN
     /\ reg' = IF r.save THEN r.tasks ELSE reg
     /\ hDup' = IF r.err = "duplicate" THEN hDup \cup {Head(hLeft).id} ELSE hDup
  /\ hLeft' = Tail(hLeft)
  /\ hPc' = AfterAdds(hRes, Tail(hLeft))
  /\ UNCHANGED <<now, cfgRecover, cfgGit, runPc, recovered, dPc, dTask, ticked,
                 taskChan, wTask, resultChan, extGot, nukeList, extCalls, restarts,
                 orphans>>
  /\ UNCHANGED <<fsVars, recCalls, dGit, cfgCreatePR, hRes, gitLog, plans,
                 stopVars, drvVars, auxVars>>

\* A failed git step marks the task failed.
AfterGitFailsTask(tasks, id, ok, t) ==
  IF ok THEN tasks ELSE UpdateStatus(tasks, id, StatusFailed, "git failed", t, t).tasks

\* The registry after a git step of processResult: an error is logged and
\* nothing is written.
AfterGit(tasks, id, ok, t) == tasks

GitSteps == {"add_all", "commit", "push", "create_pr"}

\* processResult: AddAll, Commit, Push or CreatePR; the git client returns
\* nil or an error, which is logged.
HandleGit ==
  /\ hPc \in GitSteps
  /\ \E ok \in BOOLEAN :
       /\ gitLog' = Append(gitLog, [op |-> hPc, ok |-> ok])
       /\ hPc' = NextGit(hPc, ok)
       /\ reg' = AfterGit(reg, hRes.id, ok, now)
  /\ UNCHANGED <<now, cfgRecover, cfgGit, runPc, recovered, dPc, dTask, ticked,
                 taskChan, wTask, resultChan, extGot, nukeList, extCalls, restarts,
                 orphans>>
  /\ UNCHANGED <<fsVars, recCalls, dGit, cfgCreatePR, hRes, hLeft, hDup, plans,
                 stopVars, drvVars, auxVars>>

\* processResult: CountByStatus and the summary line; the call returns.
HandleCount ==
  /\ hPc = "count"
  /\ hPc' = "idle"
  /\ UNCHANGED <<now, reg, cfgRecover, cfgGit, runPc, recovered, dPc, dTask, ticked,
                 taskChan, wTask, resultChan, extGot, nukeList, extCalls, restarts,
                 orphans>>
  /\ UNCHANGED <<fsVars, recCalls, dGit, cfgCreatePR, hRes, hLeft, hDup, gitLog, plans,
                 stopVars, drvVars, auxVars>>

\* A task completed in an earlier run under the id the first plan task will
\* get.
OldPlanTask ==
  [NewTask(3, 0, 1) EXCEPT !.title = "old", !.status = StatusCompleted,
                           !.completedAt = 1]

\* One pending planning task, alone or beside a task of an earlier plan, with
\* or without git integration and pull requests.
InitResults ==
  /\ \E r \in {<<NewTask(1, 0, 1)>>, <<NewTask(1, 0, 1), OldPlanTask>>} :
     \E git \in BOOLEAN : InitOrch(r, TRUE, git)
  /\ cfgCreatePR \in BOOLEAN
  /\ cfgStop = {}
  /\ InitFiles(StartRegistry)
  /\ mgrOf = [p \in Procs |-> "m1"]

NextResults ==
  \/ RunRecover
  \/ RunStartPool
  \/ RunSpawn
  \/ DispatchTick
  \/ DispatchClaim
  \/ DispatchGit
  \/ DispatchSubmit
  \/ \E w \in Workers : WorkerTake(w)
  \/ \E w \in Workers : WorkerFinishPlan(w)
  \/ HandleTake
  \/ HandleUpdate
  \/ HandleAdd
  \/ HandleGit
  \/ HandleCount

SpecResults == InitResults /\ [][NextResults]_vars


\* --------------------------- the orchestrator left alone, fairly scheduled

\* The agent command terminates reporting success: the worker's result is
\* completed.
WorkerSucceeds(w) ==
  /\ WorkerFinish(w)
  /\ resultChan'[Len(resultChan')].status = StatusCompleted

\* Registries of pending tasks, one of them beside a task a stopped run had
\* claimed; git integration is disabled.
InitLive ==
  /\ \E r \in {<<NewTask(1, 0, 1)>>,
              <<NewTask(1, 0, 1), NewTask(2, 1, 1)>>,
              <<NewTask(1, 1, 1), NewTask(2, 1, 1)>>,
              <<Claimed(1, 1), NewTask(2, 0, 1)>>} :
     \E rec \in BOOLEAN : InitOrch(r, rec, FALSE)
  /\ cfgCreatePR = FALSE
  /\ cfgStop = {}
  /\ InitFiles(StartRegistry)
  /\ mgrOf = [p \in Procs |-> "m1"]

NextLive ==
  \/ RunRecover
  \/ RunStartPool
  \/ RunSpawn
  \/ DispatchTick
  \/ DispatchClaim
  \/ DispatchSubmit
  \/ \E w \in Workers : WorkerTake(w)
  \/ \E w \in Workers : WorkerSucceeds(w)
  \/ ProcessResult

\* Run goes on, the dispatcher's ticker keeps firing and its goroutine, the
\* workers and the result handler are scheduled.
FairLive ==
  /\ WF_vars(RunRecover) /\ WF_vars(RunStartPool) /\ WF_vars(RunSpawn)
  /\ WF_vars(DispatchTick) /\ WF_vars(DispatchClaim) /\ WF_vars(DispatchSubmit)
  /\ \A w \in Workers : WF_vars(WorkerTake(w)) /\ WF_vars(WorkerSucceeds(w))
  /\ WF_vars(ProcessResult)

SpecLive == InitLive /\ [][NextLive]_vars /\ FairLive


\* ------------------------------------------------------------- the shutdown

\* The caller cancels the context it handed to Run.
Cancel ==
  /\ ~ctxDone
  /\ ctxDone' = TRUE
  /\ UNCHANGED <<runPc, dPc, taskOpen, resultOpen, sPc, wExit, hExit>>
  /\ UNCHANGED <<now, fsVars, reg, cfgRecover, cfgGit, recovered, dTask, ticked,
                 taskChan, wTask, resultChan, extGot, nukeList, extCalls,
                 restarts, orphans, recCalls, dGit, hVars, drvVars, auxVars>>

\* dispatchTasks: the select takes <-ctx.Done() and the loop returns.
DispatchExit ==
  /\ runPc = "running"
  /\ dPc = "idle"
  /\ ctxDone
  /\ dPc' = "exited"
  /\ UNCHANGED <<runPc, stopVars, drvVars, auxVars>>
  /\ UNCHANGED <<now, fsVars, reg, cfgRecover, cfgGit, recovered, dTask, ticked,
                 taskChan, wTask, resultChan, extGot, nukeList, extCalls,
                 restarts, orphans, recCalls, dGit, hVars, drvVars, auxVars>>

\* A worker loop that waits for a task returns when the context is cancelled
\* or the task channel is closed and drained.
WorkerExit(w) ==
  /\ runPc \in {"pool", "running"}
  /\ ~wExit[w]
  /\ wTask[w] = 0
  /\ ctxDone \/ (~taskOpen /\ taskChan = <<>>)
  /\ wExit' = [wExit EXCEPT ![w] = TRUE]
  /\ UNCHANGED <<runPc, dPc, ctxDone, taskOpen, resultOpen, sPc, hExit>>
  /\ UNCHANGED <<now, fsVars, reg, cfgRecover, cfgGit, recovered, dTask, ticked,
                 taskChan, wTask, resultChan, extGot, nukeList, extCalls,
                 restarts, orphans, recCalls, dGit, hVars, drvVars, auxVars>>

\* handleResults: the range over the result channel ends when the channel is
\* closed and drained.
HandlerExit ==
  /\ runPc = "running"
  /\ ~hExit
  /\ ~resultOpen
  /\ resultChan = <<>>
  /\ hExit' = TRUE
  /\ UNCHANGED <<runPc, dPc, ctxDone, taskOpen, resultOpen, sPc, wExit>>
  /\ UNCHANGED <<now, fsVars, reg, cfgRecover, cfgGit, recovered, dTask, ticked,
                 taskChan, wTask, resultChan, extGot, nukeList, extCalls,
                 restarts, orphans, recCalls, dGit, hVars, drvVars, auxVars>>

\* Run: <-ctx.Done() returns and Run calls Shutdown, which closes stopChan.
RunCtxDone ==
  /\ runPc = "running"
  /\ sPc = "run"
  /\ ctxDone
  /\ sPc' = "stop"
  /\ UNCHANGED <<runPc, dPc, ctxDone, taskOpen, resultOpen, wExit, hExit>>
  /\ UNCHANGED <<now, fsVars, reg, cfgRecover, cfgGit, recovered, dTask, ticked,
                 taskChan, wTask, resultChan, extGot, nukeList, extCalls,
                 restarts, orphans, recCalls, dGit, hVars, drvVars, auxVars>>

\* Pool.Stop that hands the tasks it finds in progress back as pending.
StopCloseTasksRequeue ==
  /\ runPc = "running"
  /\ sPc = "stop"
  /\ taskOpen' = FALSE
  /\ sPc' = "wait"
  /\ reg' = [i \in 1..Len(reg) |->
              IF reg[i].status = StatusInProgress
              THEN [reg[i] EXCEPT !.status = StatusPending] ELSE reg[i]]
  /\ UNCHANGED <<runPc, dPc, ctxDone, resultOpen, wExit, hExit>>
  /\ UNCHANGED <<now, fsVars, cfgRecover, cfgGit, recovered, dTask, ticked,
                 taskChan, wTask, resultChan, extGot, nukeList, extCalls,
                 restarts, orphans, recCalls, dGit, hVars, drvVars, auxVars>>

\* Pool.Stop: close(p.taskChan).
StopCloseTasks ==
  /\ runPc = "running"
  /\ sPc = "stop"
  /\ taskOpen' = FALSE
  /\ sPc' = "wait"
  /\ UNCHANGED <<runPc, dPc, ctxDone, resultOpen, wExit, hExit>>
  /\ UNCHANGED <<now, fsVars, reg, cfgRecover, cfgGit, recovered, dTask, ticked,
                 taskChan, wTask, resultChan, extGot, nukeList, extCalls,
                 restarts, orphans, recCalls, dGit, hVars, drvVars, auxVars>>

\* Pool.Stop that closes the result channel without waiting for the workers.
StopCloseResultsNoWait ==
  /\ runPc = "running"
  /\ sPc = "wait"
  /\ resultOpen' = FALSE
  /\ sPc' = "join"
  /\ UNCHANGED <<runPc, dPc, ctxDone, taskOpen, wExit, hExit>>
  /\ UNCHANGED <<now, fsVars, reg, cfgRecover, cfgGit, recovered, dTask, ticked,
                 taskChan, wTask, resultChan, extGot, nukeList, extCalls,
                 restarts, orphans, recCalls, dGit, hVars, drvVars, auxVars>>

\* Pool.Stop: p.wg.Wait() returns, close(p.resultChan).
StopCloseResults ==
  /\ runPc = "running"
  /\ sPc = "wait"
  /\ \A w \in Workers : wExit[w]
  /\ resultOpen' = FALSE
  /\ sPc' = "join"
  /\ UNCHANGED <<runPc, dPc, ctxDone, taskOpen, wExit, hExit>>
  /\ UNCHANGED <<now, fsVars, reg, cfgRecover, cfgGit, recovered, dTask, ticked,
                 taskChan, wTask, resultChan, extGot, nukeList, extCalls,
                 restarts, orphans, recCalls, dGit, hVars, drvVars, auxVars>>

\* Shutdown: o.wg.Wait() returns, or the 30 seconds are over; Run returns.
ShutdownJoin ==
  /\ runPc = "running"
  /\ sPc = "join"
  /\ \E timeout \in BOOLEAN : timeout \/ (dPc = "exited" /\ hExit)
  /\ sPc' = "returned"
  /\ UNCHANGED <<runPc, dPc, ctxDone, taskOpen, resultOpen, wExit, hExit>>
  /\ UNCHANGED <<now, fsVars, reg, cfgRecover, cfgGit, recovered, dTask, ticked,
                 taskChan, wTask, resultChan, extGot, nukeList, extCalls,
                 restarts, orphans, recCalls, dGit, hVars, drvVars, auxVars>>

InitStop ==
  /\ \E r \in {<<NewTask(1, 0, 1)>>,
              <<NewTask(1, 0, 1), NewTask(2, 1, 1)>>} :
     \E rec \in BOOLEAN : InitOrch(r, rec, FALSE)
  /\ cfgCreatePR = FALSE
  /\ cfgStop = {}
  /\ InitFiles(StartRegistry)
  /\ mgrOf = [p \in Procs |-> "m1"]

NextStop ==
  \/ RunRecover
  \/ RunStartPool
  \/ RunSpawn
  \/ DispatchTick
  \/ DispatchClaim
  \/ DispatchSubmit
  \/ \E w \in Workers : WorkerTake(w)
  \/ \E w \in Workers : WorkerFinish(w)
  \/ ProcessResult
  \/ Cancel
  \/ DispatchExit
  \/ \E w \in Workers : WorkerExit(w)
  \/ HandlerExit
  \/ RunCtxDone
  \/ StopCloseTasks
  \/ StopCloseResults
  \/ ShutdownJoin

\* Every goroutine is scheduled; the dispatcher's select, which picks among
\* its ready cases at random, takes <-ctx.Done() sooner or later.
FairStop ==
  /\ WF_vars(RunRecover) /\ WF_vars(RunStartPool) /\ WF_vars(RunSpawn)
  /\ WF_vars(DispatchClaim) /\ WF_vars(DispatchSubmit)
  /\ SF_vars(DispatchExit)
  /\ \A w \in Workers :
       WF_vars(WorkerTake(w)) /\ WF_vars(WorkerFinish(w)) /\ SF_vars(WorkerExit(w))
  /\ WF_vars(ProcessResult) /\ WF_vars(HandlerExit)
  /\ WF_vars(RunCtxDone) /\ WF_vars(StopCloseTasks)
  /\ WF_vars(StopCloseResults) /\ WF_vars(ShutdownJoin)

SpecStop == InitStop /\ [][NextStop]_vars /\ FairStop


\* ------------------------------------------------- the agent driver's execute

\* What the agent writes: plain text, config.CompletionMarker, a stop token.
Marker == "### TASK_DONE ###"
Tokens == {"text", Marker, "COMPLETED"}

\* strings.Contains(finalOutput, token).
Contains(text, token) == \E i \in 1..Len(text) : text[i] = token

\* finalOutput := stdoutBuf.String() + stderrBuf.String().
FinalOutput(buf) == buf.stdout \o buf.stderr

\* The stop tokens are not looked at.
MarkerFoundNoStopTokens(text, stops) == Contains(text, Marker)

\* markerFound: the completion marker or one of the stop tokens is in the
\* output.
MarkerFound(text, stops) ==
  Contains(text, Marker) \/ \E token \in stops : Contains(text, token)

\* success := markerFound || (err == nil).
Success(text, stops, err) == MarkerFound(text, stops) \/ err = "nil"

\* The cancellation path reports a success.
ReturnCancelledAsSuccess(ctxErr) == Return(<<>>, TRUE, ctxErr)

\* case <-ctx.Done(): return output.String(), false, ctx.Err(); output has
\* not been written to on this path.
ReturnCancelled(ctxErr) == Return(<<>>, FALSE, ctxErr)

\* case err := <-done: return output.String(), success, nil.
ReturnDone(buf, stops, err) ==
  Return(FinalOutput(buf), Success(FinalOutput(buf), stops, err), "nil")

\* cmd.Process.Kill().
Kill9(c) == IF c = "running" THEN "killed" ELSE c

\* The worker has received a task and calls execute: cmd.Start() starts the
\* agent, or fails.
ExecStart(w) ==
  /\ wTask[w] # 0
  /\ xPc = "idle"
  /\ \E ok \in BOOLEAN :
       IF ok
       THEN /\ child' = "running"
            /\ xPc' = "started"
            /\ UNCHANGED xRet
       ELSE /\ xRet' = Return(<<>>, FALSE, "exec: not found")
            /\ xPc' = "returned"
            /\ UNCHANGED child
  /\ UNCHANGED <<xCode, outBuf, xCtx, doneErr, xOrder, xWaited, cfgStop>>
  /\ UNCHANGED <<wTask, resultChan>>
  /\ UNCHANGED <<now, fsVars, reg, cfgRecover, cfgGit, runPc, recovered, dPc, dTask,
                 ticked, taskChan, extGot, nukeList, extCalls, restarts,
                 orphans, recCalls, dGit, hVars, stopVars, auxVars>>

\* The agent writes to its stdout or to its stderr.
ChildWrite ==
  /\ child = "running"
  /\ Len(FinalOutput(outBuf)) < MaxOut
  /\ \E token \in Tokens :
       \/ outBuf' = Output(Append(outBuf.stdout, token), outBuf.stderr)
       \/ outBuf' = Output(outBuf.stdout, Append(outBuf.stderr, token))
  /\ UNCHANGED <<xPc, child, xCode, xCtx, doneErr, xRet, xOrder, xWaited, cfgStop>>
  /\ UNCHANGED <<wTask, resultChan>>
  /\ UNCHANGED <<now, fsVars, reg, cfgRecover, cfgGit, runPc, recovered, dPc, dTask,
                 ticked, taskChan, extGot, nukeList, extCalls, restarts,
                 orphans, recCalls, dGit, hVars, stopVars, auxVars>>

\* The agent exits, with code 0 or 1.
ChildExit ==
  /\ child = "running"
  /\ child' = "exited"
  /\ \E code \in {0, 1} : xCode' = code
  /\ xOrder' = IF xOrder = "none" THEN "exit" ELSE xOrder
  /\ UNCHANGED <<xPc, outBuf, xCtx, doneErr, xRet, xWaited, cfgStop>>
  /\ UNCHANGED <<wTask, resultChan>>
  /\ UNCHANGED <<now, fsVars, reg, cfgRecover, cfgGit, runPc, recovered, dPc, dTask,
                 ticked, taskChan, extGot, nukeList, extCalls, restarts,
                 orphans, recCalls, dGit, hVars, stopVars, auxVars>>

\* go func() { done <- cmd.Wait() }(): the exit is collected and sent. An
\* execute blocked in its select receives it and returns.
WaitSend ==
  /\ child \in {"exited", "killed"}
  /\ doneErr = "none"
  /\ xPc \in {"started", "select"}
  /\ LET err == IF child = "exited" /\ xCode = 0 THEN "nil" ELSE "exit status" IN
     IF xPc = "select"
     THEN /\ doneErr' = "taken"
          /\ xRet' = ReturnDone(outBuf, cfgStop, err)
          /\ xPc' = "returned"
     ELSE /\ doneErr' = err
          /\ UNCHANGED <<xRet, xPc>>
  /\ UNCHANGED <<child, xCode, outBuf, xCtx, xOrder, xWaited, cfgStop>>
  /\ UNCHANGED <<wTask, resultChan>>
  /\ UNCHANGED <<now, fsVars, reg, cfgRecover, cfgGit, runPc, recovered, dPc, dTask,
                 ticked, taskChan, extGot, nukeList, extCalls, restarts,
                 orphans, recCalls, dGit, hVars, stopVars, auxVars>>

\* The context of the call is done: the worker's per-task timeout expires
\* ("context deadline exceeded") or the root context is cancelled ("context
\* canceled"). An execute blocked in its select kills the agent and returns.
CtxDone ==
  /\ xCtx = "live"
  /\ xPc \in {"started", "select"}
  /\ \E ctxErr \in {"context canceled", "context deadline exceeded"} :
       /\ xCtx' = ctxErr
       /\ xWaited' = (xPc = "select" /\ child = "running"
                        /\ ctxErr = "context deadline exceeded")
       /\ IF xPc = "select"
          THEN /\ child' = Kill9(child)
               /\ xRet' = ReturnCancelled(ctxErr)
               /\ xPc' = "returned"
          ELSE UNCHANGED <<child, xRet, xPc>>
  /\ xOrder' = IF xOrder = "none" THEN "cancel" ELSE xOrder
  /\ UNCHANGED <<xCode, outBuf, doneErr, cfgStop>>
  /\ UNCHANGED <<wTask, resultChan>>
  /\ UNCHANGED <<now, fsVars, reg, cfgRecover, cfgGit, runPc, recovered, dPc, dTask,
                 ticked, taskChan, extGot, nukeList, extCalls, restarts,
                 orphans, recCalls, dGit, hVars, stopVars, auxVars>>

\* execute reaches its select: it takes one of the cases that are ready, or
\* blocks.
ExecSelect ==
  /\ xPc = "started"
  /\ \/ /\ xCtx # "live"
        /\ child' = Kill9(child)
        /\ xRet' = ReturnCancelled(xCtx)
        /\ xPc' = "returned"
        /\ UNCHANGED doneErr
     \/ /\ doneErr # "none"
        /\ xRet' = ReturnDone(outBuf, cfgStop, doneErr)
        /\ doneErr' = "taken"
        /\ xPc' = "returned"
        /\ UNCHANGED child
     \/ /\ xCtx = "live" /\ doneErr = "none"
        /\ xPc' = "select"
        /\ UNCHANGED <<child, xRet, doneErr>>
  /\ UNCHANGED <<xCode, outBuf, xCtx, xOrder, xWaited, cfgStop>>
  /\ UNCHANGED <<wTask, resultChan>>
  /\ UNCHANGED <<now, fsVars, reg, cfgRecover, cfgGit, runPc, recovered, dPc, dTask,
                 ticked, taskChan, extGot, nukeList, extCalls, restarts,
                 orphans, recCalls, dGit, hVars, stopVars, auxVars>>

\* An error's message; a nil error has none.
ErrorMessage(err) == IF err = "nil" THEN "" ELSE err

\* The reason of a failed result: the end of the output, or the error's
\* message when there is no output.
FailReason(ret) == IF ret.out # <<>> THEN "output" ELSE ErrorMessage(ret.err)

\* The worker's result: completed if the driver reported success, otherwise
\* failed.
Classify(id, ret) ==
  IF ret.success THEN TaskResult(id, StatusCompleted, "")
  ELSE TaskResult(id, StatusFailed, FailReason(ret))

\* The worker sends its result on the result channel.
WorkerEmit(w) ==
  /\ wTask[w] # 0
  /\ xPc = "returned"
  /\ Len(resultChan) < ChanCap
  /\ resultChan' = Append(resultChan, Classify(wTask[w], xRet))
  /\ wTask' = [wTask EXCEPT ![w] = 0]
  /\ xPc' = "emitted"
  /\ UNCHANGED <<child, xCode, outBuf, xCtx, doneErr, xRet, xOrder, xWaited, cfgStop>>
  /\ UNCHANGED <<now, fsVars, reg, cfgRecover, cfgGit, runPc, recovered, dPc, dTask,
                 ticked, taskChan, extGot, nukeList, extCalls, restarts,
                 orphans, recCalls, dGit, hVars, stopVars, auxVars>>

\* One pending task, git integration disabled; the stop tokens configured or
\* not.
InitDriver ==
  /\ InitOrch(<<NewTask(1, 0, 1)>>, FALSE, FALSE)
  /\ cfgCreatePR = FALSE
  /\ cfgStop \in {{}, {"COMPLETED"}}
  /\ InitFiles(StartRegistry)
  /\ mgrOf = [p \in Procs |-> "m1"]

NextDriver ==
  \/ RunRecover
  \/ RunStartPool
  \/ RunSpawn
  \/ DispatchTick
  \/ DispatchClaim
  \/ DispatchSubmit
  \/ \E w \in Workers : WorkerTake(w)
  \/ \E w \in Workers : ExecStart(w)
  \/ ChildWrite
  \/ ChildExit
  \/ WaitSend
  \/ CtxDone
  \/ ExecSelect
  \/ \E w \in Workers : WorkerEmit(w)
  \/ ProcessResult

\* The goroutines of Run, of the worker and of execute are scheduled.
FairDriver ==
  /\ WF_vars(RunRecover) /\ WF_vars(RunStartPool) /\ WF_vars(RunSpawn)
  /\ WF_vars(DispatchTick) /\ WF_vars(DispatchClaim) /\ WF_vars(DispatchSubmit)
  /\ \A w \in Workers :
       WF_vars(WorkerTake(w)) /\ WF_vars(ExecStart(w)) /\ WF_vars(WorkerEmit(w))
  /\ WF_vars(WaitSend) /\ WF_vars(ExecSelect) /\ WF_vars(ProcessResult)

SpecDriver == InitDriver /\ [][NextDriver]_vars /\ FairDriver


\* ------------------------------------------------------ the driver's restarts

\* The restart budget is used up one restart late.
ExceededOneLate(count, max) == count > max

\* Restart: d.restartCount >= d.config.MaxRestartAttempts.
Exceeded(count, max) == count >= max

\* Driver.Start: fails when the agent is already running.
DriverStart ==
  /\ ~isRunning
  /\ isRunning' = TRUE
  /\ UNCHANGED <<restartCount, rPc, rTag, rRet, rEpoch, rOk>>
  /\ UNCHANGED <<now, fsVars, runVars, callLog>>

\* Driver.Stop.
DriverStop ==
  /\ isRunning
  /\ isRunning' = FALSE
  /\ UNCHANGED <<restartCount, rPc, rTag, rRet, rEpoch, rOk>>
  /\ UNCHANGED <<now, fsVars, runVars, callLog>>

\* config.RestartCooldownSeconds, as DefaultConfig sets it.
RestartCooldownSeconds == <<5, 15, 60>>

\* Restart's cooldown, in seconds: 5 unless the configured sequence has an
\* entry, and then its first entry.
Cooldown(seconds) == IF Len(seconds) > 0 THEN seconds[1] ELSE 5

\* Restart, under d.mu: the check of the budget, the cooldown and the
\* increment. callLog holds the last restart that was let through: its
\* attempt number and the cooldown it sleeps.
RestartCheck(c) ==
  /\ rPc[c] = "idle"
  /\ IF Exceeded(restartCount, MaxRestartAttempts)
     THEN /\ rRet' = [rRet EXCEPT ![c] = "max restart attempts exceeded"]
          /\ UNCHANGED <<restartCount, rPc, rTag, callLog>>
     ELSE /\ restartCount' = restartCount + 1
          /\ rPc' = [rPc EXCEPT ![c] = "stop"]
          /\ rTag' = [rTag EXCEPT ![c] = rEpoch]
          /\ rRet' = [rRet EXCEPT ![c] = "none"]
          /\ callLog' = <<[name |-> "Restart", attempt |-> restartCount + 1,
                           cooldown |-> Cooldown(RestartCooldownSeconds)]>>
  /\ UNCHANGED <<isRunning, rEpoch, rOk>>
  /\ UNCHANGED <<now, fsVars, runVars>>

\* Restart: d.Stop(), then the cooldown.
RestartStop(c) ==
  /\ rPc[c] = "stop"
  /\ isRunning' = FALSE
  /\ rPc' = [rPc EXCEPT ![c] = "start"]
  /\ UNCHANGED <<restartCount, rTag, rRet, rEpoch, rOk>>
  /\ UNCHANGED <<now, fsVars, runVars, callLog>>

\* Restart: return d.Start().
RestartStart(c) ==
  /\ rPc[c] = "start"
  /\ rPc' = [rPc EXCEPT ![c] = "idle"]
  /\ IF isRunning
     THEN /\ rRet' = [rRet EXCEPT ![c] = "agent is already running"]
          /\ UNCHANGED <<isRunning, rOk>>
     ELSE /\ isRunning' = TRUE
          /\ rRet' = [rRet EXCEPT ![c] = "nil"]
          /\ rOk' = [rOk EXCEPT ![rTag[c]] = @ + 1]
  /\ UNCHANGED <<restartCount, rTag, rEpoch>>
  /\ UNCHANGED <<now, fsVars, runVars, callLog>>

\* ResetRestartCount.
ResetRestartCount ==
  /\ rEpoch < MaxResets
  /\ restartCount' = 0
  /\ rEpoch' = rEpoch + 1
  /\ UNCHANGED <<isRunning, rPc, rTag, rRet, rOk>>
  /\ UNCHANGED <<now, fsVars, runVars, callLog>>

\* A driver as New leaves it.
InitRestart ==
  /\ InitOrch(<<>>, FALSE, FALSE)
  /\ cfgCreatePR = FALSE
  /\ cfgStop = {}
  /\ InitFiles(StartRegistry)
  /\ mgrOf = [p \in Procs |-> "m1"]

NextRestart ==
  \/ DriverStart
  \/ DriverStop
  \/ \E c \in Callers : RestartCheck(c)
  \/ \E c \in Callers : RestartStop(c)
  \/ \E c \in Callers : RestartStart(c)
  \/ ResetRestartCount

SpecRestart == InitRestart /\ [][NextRestart]_vars


\* ------------------------------------------------------ the pool, called directly

\* What Submit answers and the channel it leaves.
Submitted(ch, ret) == [ch |-> ch, ret |-> ret]

\* Submit that queues beyond the capacity.
SubmitUnbounded(ch, open, id) ==
  IF ~open THEN Submitted(ch, "panic") ELSE Submitted(Append(ch, id), "true")

\* Pool.Submit: the send on a closed channel panics, the send on a channel
\* with room succeeds, the default case answers false.
Submit(ch, open, id) ==
  IF ~open THEN Submitted(ch, "panic")
  ELSE IF Len(ch) < ChanCap THEN Submitted(Append(ch, id), "true")
  ELSE Submitted(ch, "false")

\* A client calls Submit.
PoolSubmit ==
  /\ runPc \in {"start", "pool"}
  /\ Len(callLog) < MaxLog
  /\ \E id \in TaskIDs :
       LET r == Submit(taskChan, taskOpen, id) IN
       /\ taskChan' = r.ch
       /\ callLog' = Append(callLog, [name |-> "Submit", id |-> id, ret |-> r.ret,
                                      before |-> taskChan, after |-> r.ch])
       /\ runPc' = IF r.ret = "panic" THEN "crashed" ELSE runPc
  /\ UNCHANGED <<now, fsVars, reg, cfgRecover, cfgGit, recovered, dPc, dTask, ticked,
                 wTask, resultChan, extGot, nukeList, extCalls, restarts, orphans,
                 recCalls, dGit, hVars, stopVars, drvVars, rstVars>>

\* A client calls IsFull.
PoolIsFull ==
  /\ runPc \in {"start", "pool"}
  /\ Len(callLog) < MaxLog
  /\ callLog' = Append(callLog, [name |-> "IsFull", id |-> 0,
                                 ret |-> IF IsFull(taskChan) THEN "true" ELSE "false",
                                 before |-> taskChan, after |-> taskChan])
  /\ UNCHANGED <<now, fsVars, runVars, rstVars>>

\* A pool as NewPool leaves it, not yet started.
InitPool ==
  /\ InitOrch(<<>>, FALSE, FALSE)
  /\ cfgCreatePR = FALSE
  /\ cfgStop = {}
  /\ InitFiles(StartRegistry)
  /\ mgrOf = [p \in Procs |-> "m1"]

NextPool ==
  \/ RunRecover
  \/ RunStartPool
  \/ PoolSubmit
  \/ PoolIsFull
  \/ \E w \in Workers : WorkerTake(w)
  \/ \E w \in Workers : WorkerFinish(w)

SpecPool == InitPool /\ [][NextPool]_vars


\* ------------------------------------------- Manager methods, one call each

\* A task of the given status and priority, stamped as the Manager methods
\* stamp it.
Stamped(id, st, prio) ==
  LET t == NewTask(id, prio, 1) IN
  IF st = StatusPending THEN t
  ELSE [MarkInProgress(t, 1, 1, 1) EXCEPT
          !.status = st,
          !.failReason = IF st = StatusFailed THEN "agent failed" ELSE "",
          !.completedAt = IF IsTerminal(st) THEN 1 ELSE 0]

\* Every registry of at most three tasks, each of any status and priority.
PriorityRegistries ==
  LET S(id) == {Stamped(id, st, prio) : st \in Statuses, prio \in 0..2} IN
  {<<>>} \cup {<<a>> : a \in S(1)}
         \cup {<<a, b>> : a \in S(1), b \in S(2)}
         \cup {<<a, b, c>> : a \in S(1), b \in S(2), c \in S(3)}

\* One GetNextPending call: the list it loaded and the task it returned.
NextPendingCall ==
  /\ callLog = <<>>
  /\ callLog' = <<[name |-> "GetNextPending", before |-> reg,
                   task |-> GetNextPending(reg)]>>
  /\ UNCHANGED <<now, fsVars, runVars, rstVars>>

InitNext ==
  /\ \E r \in PriorityRegistries : InitOrch(r, FALSE, FALSE)
  /\ cfgCreatePR = FALSE
  /\ cfgStop = {}
  /\ InitFiles(StartRegistry)
  /\ mgrOf = [p \in Procs |-> "m1"]

NextNext == NextPendingCall

SpecNext == InitNext /\ [][NextNext]_vars


\* One UpdateStatus call: its arguments, the list it loaded, the two values
\* of time.Now() and the error it returned.
UpdateStatusCall ==
  /\ callLog = <<>>
  /\ \E id \in 1..3 : \E st \in Statuses : \E reason \in {"", "CLI Update"} :
     \E t1 \in Later(now) : \E t2 \in Later(t1) :
       LET r == UpdateStatus(reg, id, st, reason, t1, t2) IN
       /\ reg' = IF r.save THEN r.tasks ELSE reg
       /\ now' = IF r.save THEN t2 ELSE now
       /\ callLog' = <<[name |-> "UpdateStatus", id |-> id, st |-> st,
                        reason |-> reason, t1 |-> t1, t2 |-> t2,
                        err |-> r.err, before |-> reg]>>
  /\ UNCHANGED <<cfgRecover, cfgGit, runPc, recovered, dPc, dTask, ticked, taskChan,
                 wTask, resultChan, extGot, nukeList, extCalls, restarts, orphans,
                 recCalls, dGit, hVars, stopVars, drvVars, rstVars>>
  /\ UNCHANGED fsVars

InitUpdate ==
  /\ \E r \in RecoverRegistries : InitOrch(r, FALSE, FALSE)
  /\ cfgCreatePR = FALSE
  /\ cfgStop = {}
  /\ InitFiles(StartRegistry)
  /\ mgrOf = [p \in Procs |-> "m1"]

NextUpdate == UpdateStatusCall

SpecUpdate == InitUpdate /\ [][NextUpdate]_vars


\* ------------------------------------------- one worker, a fixed set of tasks

\* Three tasks, all pending when the orchestrator starts, of any priorities.
PendingRegistries ==
  {<<NewTask(1, p1, 1), NewTask(2, p2, 1), NewTask(3, p3, 1)>> :
     p1 \in 0..2, p2 \in 0..2, p3 \in 0..2}

InitPriority ==
  /\ \E r \in PendingRegistries : \E rec \in BOOLEAN : \E git \in BOOLEAN :
       InitOrch(r, rec, git)
  /\ cfgCreatePR = FALSE
  /\ cfgStop = {}
  /\ InitFiles(StartRegistry)
  /\ mgrOf = [p \in Procs |-> "m1"]

\* The orchestrator alone: no task is added, changed or deleted from outside.
NextPriority ==
  \/ RunRecover
  \/ RunStartPool
  \/ RunSpawn
  \/ DispatchTick
  \/ DispatchClaim
  \/ DispatchGit
  \/ DispatchSubmit
  \/ \E w \in Workers : WorkerTake(w)
  \/ \E w \in Workers : WorkerFinish(w)
  \/ ProcessResult

SpecPriority == InitPriority /\ [][NextPriority]_vars


\* ------------------------------------------ a registry file that is malformed

\* Contents of the registry file that are not a JSON array of tasks: an
\* empty file, a truncated array, data after the closing bracket, and a run
\* of zero bytes inside the array.
MalformedData ==
  {<<>>,
   <<Tok("open", NoTask), Tok("task", Claimed(1, 1))>>,
   Marshal(StartRegistry) \o <<Tok("close", NoTask)>>,
   <<Tok("open", NoTask), Tok("hole", NoTask), Tok("close", NoTask)>>}

\* The calls made while the file is malformed: the orchestrator's (p1), the
\* TUI's (p2) and the CLI's (p3), with GetNextPending for the dispatcher.
BadOps(p) ==
  IF p = "p1" THEN AllOps(p) \cup {Op("next_pending", 0, "", "", 0)}
  ELSE AllOps(p)

\* The file is malformed from the start; the CLI's retry holds a task it
\* read while the file was still well formed.
InitBad ==
  /\ now = 1
  /\ \E d \in MalformedData :
       files = [f \in {"canon", "tmp"} |-> IF f = "canon" THEN File(d) ELSE Absent]
  /\ fd = [p \in Procs |-> "none"]
  /\ off = [p \in Procs |-> 0]
  /\ lockW = [m \in Managers |-> "none"]
  /\ lockR = [m \in Managers |-> {}]
  /\ pc = [p \in Procs |-> "idle"]
  /\ op = [p \in Procs |-> NoOp]
  /\ snap = [p \in Procs |-> <<>>]
  /\ wbuf = [p \in Procs |-> <<>>]
  /\ res = [p \in Procs |-> "none"]
  /\ got = [p \in Procs |-> IF p = "p3" THEN Claimed(1, 1) ELSE NoTask]
  /\ calls = 0
  /\ ghost = StartRegistry
  /\ lastSave = [old |-> StartRegistry, new |-> StartRegistry]
  /\ killedAt = "none"
  /\ start = StartRegistry
  /\ InitOrch(StartRegistry, TRUE, FALSE)
  /\ cfgCreatePR = FALSE
  /\ cfgStop = {}
  /\ \E two \in BOOLEAN :
       mgrOf = [p \in Procs |-> IF two /\ p = "p3" THEN "m2" ELSE "m1"]

\* Each caller makes one call. A call that got past loadAllLocked would stop
\* at its saveAllLocked (pc = "save"), before the steps that write the file.
NextBad ==
  \/ \E p \in Procs : \E o \in BadOps(p) : op[p] = NoOp /\ Begin(p, o)
  \/ \E p \in Procs : Load(p)
  \/ \E p \in Procs : Unlock(p, TRUE)

SpecBad == InitBad /\ [][NextBad]_vars


\* -------------------------------------------- calls that name an absent task

\* Registries that lack task 1, or both tasks.
AbsentRegistries == {<<>>, <<NewTask(2, 0, 1)>>, StartRegistry}

\* The task a caller hands to UpdateTask: one it read earlier, of either id.
HeldTasks == {Claimed(1, 1), [Claimed(1, 1) EXCEPT !.id = 2]}

InitAbsent ==
  /\ now = 1
  /\ \E r \in AbsentRegistries :
       /\ files = [f \in {"canon", "tmp"} |->
                     IF f = "canon" THEN File(Marshal(r)) ELSE Absent]
       /\ ghost = r
       /\ lastSave = [old |-> r, new |-> r]
       /\ start = r
       /\ InitOrch(r, TRUE, FALSE)
  /\ fd = [p \in Procs |-> "none"]
  /\ off = [p \in Procs |-> 0]
  /\ lockW = [m \in Managers |-> "none"]
  /\ lockR = [m \in Managers |-> {}]
  /\ pc = [p \in Procs |-> "idle"]
  /\ op = [p \in Procs |-> NoOp]
  /\ snap = [p \in Procs |-> <<>>]
  /\ wbuf = [p \in Procs |-> <<>>]
  /\ res = [p \in Procs |-> "none"]
  /\ \E g \in HeldTasks : got = [p \in Procs |-> IF p = "p3" THEN g ELSE NoTask]
  /\ calls = 0
  /\ killedAt = "none"
  /\ cfgCreatePR = FALSE
  /\ cfgStop = {}
  /\ mgrOf = [p \in Procs |-> "m1"]

\* Each caller makes one call through the one Manager.
NextAbsent ==
  \/ \E p \in Procs : \E o \in AllOps(p) : op[p] = NoOp /\ Begin(p, o)
  \/ \E p \in Procs : Step(p)
  \/ \E p \in Procs : Unlock(p, TRUE)

SpecAbsent == InitAbsent /\ [][NextAbsent]_vars


\* ------------------------------------------ the registry file's JSON objects

\* The fields of a Task, and those with an omitempty tag that encoding/json
\* leaves out when they hold their zero value (a time.Time is never empty
\* for encoding/json: the four timestamps are always written).
TaskKeys ==
  {"id", "title", "role", "priority", "status", "workerID", "retryCount",
   "failReason", "startedAt", "completedAt", "updatedAt"}

OmitEmptyKeys == {"role", "failReason", "workerID", "retryCount", "priority"}

\* The zero value of a field.
ZeroOf(k) == NoTask[k]

\* An encoder that leaves the omitempty fields out whatever they hold.
OmittedAlways(k, v) == k \in OmitEmptyKeys

Omitted(k, v) == k \in OmitEmptyKeys /\ v = ZeroOf(k)

\* json.MarshalIndent of one Task: the object's members.
EncodeTask(t) ==
  LET keys == {k \in TaskKeys : ~Omitted(k, t[k])}
  IN [k \in keys |-> t[k]]

\* json.Unmarshal of one object into a Task: a member that is missing leaves
\* the field at its zero value.
DecodeTask(obj) ==
  LET f == [k \in TaskKeys |-> IF k \in DOMAIN obj THEN obj[k] ELSE ZeroOf(k)]
  IN [id |-> f["id"], title |-> f["title"], role |-> f["role"],
      priority |-> f["priority"], status |-> f["status"],
      workerID |-> f["workerID"], retryCount |-> f["retryCount"],
      failReason |-> f["failReason"], startedAt |-> f["startedAt"],
      completedAt |-> f["completedAt"], updatedAt |-> f["updatedAt"]]

\* saveAllLocked's data and LoadAll's result, object by object.
MarshalJSON(tasks) == Marshal([i \in 1..Len(tasks) |-> EncodeTask(tasks[i])])

UnmarshalJSON(data) ==
  LET u == Unmarshal(data)
  IN [ok |-> u.ok, tasks |-> [i \in 1..Len(u.tasks) |-> DecodeTask(u.tasks[i])]]

\* Tasks a caller adds or writes back: a new task, a task with a role and a
\* priority, a failed task with every field set.
RoundTasks ==
  UNION {{NewTask(id, 0, 1),
          [NewTask(id, 1, 1) EXCEPT !.role = "qa", !.title = "A"],
          Shape(id, StatusFailed, 1, 1, TRUE)} : id \in TaskIDs}

\* LoadAll on the registry file.
Loaded == UnmarshalJSON(files["canon"].data)

\* One AddTask call: load, append, save. `ghost` is the sequence written.
RoundAdd ==
  /\ Len(callLog) < MaxWrites
  /\ \E t \in RoundTasks :
       LET r == AddTask(Loaded.tasks, t) IN
       /\ Loaded.ok
       /\ r.save
       /\ files' = [files EXCEPT !["canon"] = File(MarshalJSON(r.tasks))]
       /\ ghost' = Append(ghost, t)
       /\ callLog' = Append(callLog, [name |-> "AddTask", id |-> t.id])
  /\ UNCHANGED <<now, fd, off, mgrOf, lockW, lockR, pc, op, snap, wbuf, res, got,
                 calls, lastSave, killedAt, start>>
  /\ UNCHANGED <<runVars, rstVars>>

\* One UpdateTask call: load, replace the task of this id, save.
RoundUpdate ==
  /\ Len(callLog) < MaxWrites
  /\ \E t \in RoundTasks : \E t1 \in Later(now) :
       LET r == UpdateTask(Loaded.tasks, t, t1) IN
       /\ Loaded.ok
       /\ r.save
       /\ files' = [files EXCEPT !["canon"] = File(MarshalJSON(r.tasks))]
       /\ ghost' = [i \in 1..Len(ghost) |->
                      IF ghost[i].id = t.id THEN [t EXCEPT !.updatedAt = t1]
                      ELSE ghost[i]]
       /\ now' = t1
       /\ callLog' = Append(callLog, [name |-> "UpdateTask", id |-> t.id])
  /\ UNCHANGED <<fd, off, mgrOf, lockW, lockR, pc, op, snap, wbuf, res, got,
                 calls, lastSave, killedAt, start>>
  /\ UNCHANGED <<runVars, rstVars>>

\* NewManager on a path without a file: nothing written yet.
InitRound ==
  /\ InitFiles(<<>>)
  /\ InitOrch(<<>>, FALSE, FALSE)
  /\ cfgCreatePR = FALSE
  /\ cfgStop = {}
  /\ mgrOf = [p \in Procs |-> "m1"]

NextRound == RoundAdd \/ RoundUpdate

SpecRound == InitRound /\ [][NextRound]_vars


\* ------------------------------------------------------------- EnsureFile

\* EnsureFile: os.Stat of the registry path, under m.mu.
EnsureStat(p) ==
  /\ pc[p] = "locked"
  /\ op[p].name = "ensure"
  /\ IF files["canon"].exists
     THEN /\ pc' = [pc EXCEPT ![p] = "unlock"]
          /\ res' = [res EXCEPT ![p] = "ok"]
     ELSE /\ pc' = [pc EXCEPT ![p] = "create"]
          /\ UNCHANGED res
  /\ UNCHANGED <<now, files, fd, off, mgrOf, lockW, lockR, op, snap, wbuf, got,
                 calls, ghost, lastSave, killedAt, start>>
  /\ UNCHANGED orchVars

\* EnsureFile: os.WriteFile(m.filePath, "[]") opens the registry path itself
\* with O_CREATE|O_TRUNC.
EnsureOpen(p) ==
  /\ pc[p] = "create"
  /\ files' = [files EXCEPT !["canon"] = File(<<>>)]
  /\ fd' = [fd EXCEPT ![p] = "canon"]
  /\ off' = [off EXCEPT ![p] = 0]
  /\ wbuf' = [wbuf EXCEPT ![p] = Marshal(<<>>)]
  /\ pc' = [pc EXCEPT ![p] = "fill"]
  /\ UNCHANGED <<now, mgrOf, lockW, lockR, op, snap, res, got, calls,
                 ghost, lastSave, killedAt, start>>
  /\ UNCHANGED orchVars

\* EnsureFile: os.WriteFile writes the next token of "[]" to the file it
\* opened and closes it after the last one.
EnsureWrite(p) ==
  /\ pc[p] = "fill"
  /\ files' = IF fd[p] \in {"canon", "tmp"}
              THEN [files EXCEPT ![fd[p]].data = WriteAt(@, off[p], wbuf[p][off[p] + 1])]
              ELSE files
  /\ off' = [off EXCEPT ![p] = @ + 1]
  /\ IF off[p] + 1 = Len(wbuf[p])
     THEN /\ pc' = [pc EXCEPT ![p] = "unlock"]
          /\ fd' = [fd EXCEPT ![p] = "none"]
          /\ res' = [res EXCEPT ![p] = "ok"]
     ELSE UNCHANGED <<pc, fd, res>>
  /\ UNCHANGED <<now, mgrOf, lockW, lockR, op, snap, wbuf, got, calls,
                 ghost, lastSave, killedAt, start>>
  /\ UNCHANGED orchVars

\* The calls at startup: the orchestrator's process (p1, p2) calls
\* EnsureFile, another process (p3) adds tasks through its own Manager.
EnsureOps(p) ==
  IF p = "p3" THEN IdOps({"add"}) ELSE {Op("ensure", 0, "", "", 0)}

\* The registry path names no file yet, or the file holds tasks.
InitEnsure ==
  /\ now = 1
  /\ \E f \in {Absent, File(Marshal(StartRegistry))} :
       files = [n \in {"canon", "tmp"} |-> IF n = "canon" THEN f ELSE Absent]
  /\ fd = [p \in Procs |-> "none"]
  /\ off = [p \in Procs |-> 0]
  /\ lockW = [m \in Managers |-> "none"]
  /\ lockR = [m \in Managers |-> {}]
  /\ pc = [p \in Procs |-> "idle"]
  /\ op = [p \in Procs |-> NoOp]
  /\ snap = [p \in Procs |-> <<>>]
  /\ wbuf = [p \in Procs |-> <<>>]
  /\ res = [p \in Procs |-> "none"]
  /\ got = [p \in Procs |-> NoTask]
  /\ calls = 0
  /\ ghost = <<>>
  /\ lastSave = [old |-> <<>>, new |-> <<>>]
  /\ killedAt = "none"
  /\ start = <<>>
  /\ InitOrch(<<>>, TRUE, FALSE)
  /\ cfgCreatePR = FALSE
  /\ cfgStop = {}
  /\ mgrOf = [p \in Procs |-> IF p = "p3" THEN "m2" ELSE "m1"]

NextEnsure ==
  \/ \E p \in Procs : \E o \in EnsureOps(p) : Begin(p, o)
  \/ \E p \in Procs : EnsureStat(p)
  \/ \E p \in Procs : EnsureOpen(p)
  \/ \E p \in Procs : EnsureWrite(p)
  \/ \E p \in Procs : op[p].name # "ensure" /\ Step(p)
  \/ \E p \in Procs : Unlock(p, FALSE)

SpecEnsure == InitEnsure /\ [][NextEnsure]_vars

\* ------------------------------------------------------- file-level claims

CanonTasks == loadAllLocked(files["canon"])

Saving(p) == pc[p] \in {"save", "write", "rename"}

Returned(p) == pc[p] = "idle" /\ op[p] # NoOp

Claimers(id) == {p \in Procs : op[p].name = "claim" /\ op[p].id = id}

Winners(id) == {p \in Claimers(id) : Returned(p) /\ res[p] = "ok"}

StartPending(id) ==
  IndexOf(start, id) # 0 /\ start[IndexOf(start, id)].status = StatusPending

\* C1: of the concurrent ClaimTask calls made through one Manager on a
\* pending task exactly one returns nil and every other one returns the
\* not-pending error; the registry then holds the task as in_progress with
\* the worker id and the started_at the winner stamped. (No call on a task
\* that was not pending succeeds.)
C1_ExactlyOneClaimWins ==
  \A id \in TaskIDs :
    LET cl == Claimers(id)
        win == Winners(id)
        i == IndexOf(CanonTasks.tasks, id)
    IN /\ Cardinality(win) <= 1
       /\ \A p \in cl : Returned(p) /\ p \notin win => res[p] = "not_pending"
       /\ ~StartPending(id) => win = {}
       /\ (StartPending(id) /\ cl # {} /\ \A p \in cl : Returned(p))
            => Cardinality(win) = 1
       /\ \A p \in win :
            LET mine == Unmarshal(wbuf[p]).tasks IN
            /\ i # 0
            /\ CanonTasks.tasks[i].status = StatusInProgress
            /\ CanonTasks.tasks[i].workerID = WorkerOf(p)
            /\ CanonTasks.tasks[i].startedAt = mine[IndexOf(mine, id)].startedAt
            /\ CanonTasks.tasks[i].startedAt # 0

\* Two callers claimed the same pending task and both have returned.
C1_Witness ==
  \E id \in TaskIDs :
    /\ StartPending(id)
    /\ Cardinality(Claimers(id)) >= 2
    /\ \A p \in Claimers(id) : Returned(p)
    /\ \E p \in Claimers(id) : res[p] = "ok"
    /\ \E p \in Claimers(id) : res[p] = "not_pending"

\* C2: whatever step of saveAllLocked the process is killed at, the registry
\* file parses and holds the complete list from before the save or the
\* complete new list.
C2_KillLeavesOldOrNew ==
  /\ files["canon"].exists
  /\ CanonTasks.ok
  /\ CanonTasks.tasks \in {lastSave.old, lastSave.new}

\* Killed in the middle of the temp-file write: the temp file is truncated
\* JSON and the registry still holds the previous list.
C2_Witness ==
  /\ killedAt = "write"
  /\ files["tmp"].exists
  /\ ~Unmarshal(files["tmp"].data).ok
  /\ lastSave.old # lastSave.new
  /\ CanonTasks.tasks = lastSave.old

\* C3: with two Managers (two mutexes) writing the same path, every
\* interleaving of their temp-file writes and renames leaves the registry
\* file holding a complete task list: a reader never finds it partly written.
C3_NoPartialRegistry == files["canon"].exists => Unmarshal(files["canon"].data).ok

\* C10: the calls issued concurrently through one Manager are serialized:
\* a call saves over exactly the list it loaded, the registry equals the
\* result of applying the calls one after another, and no call (LoadAll and
\* GetByID included) fails to read or parse the file.
C10_Serialized ==
  /\ \A p \in Procs : Saving(p) => CanonTasks.ok /\ snap[p] = CanonTasks.tasks
  /\ (\A p \in Procs : ~Saving(p)) => CanonTasks.ok /\ CanonTasks.tasks = ghost
  /\ \A p \in Procs : res[p] \notin {"parse", "io"}

\* Two calls have saved, each a change to another task, and both changes are
\* in the registry.
C10_Witness ==
  /\ calls = 2
  /\ \A p \in Procs : pc[p] = "idle"
  /\ Len(CanonTasks.tasks) = 2
  /\ CanonTasks.tasks[1].status # start[1].status
  /\ CanonTasks.tasks[2].status # start[2].status

\* ------------------------------------------------- registry-level claims

Distinct(tasks) ==
  \A i \in 1..Len(tasks) : \A j \in 1..Len(tasks) : tasks[i].id = tasks[j].id => i = j

TerminalStatuses == {StatusCompleted, StatusFailed}

ActiveStatuses == {StatusInProgress, StatusReviewing}

\* The step writes back the task the retry command has reset.
IsRetryOf(id) == extGot # NoTask /\ extGot' = NoTask /\ extGot.id = id

\* C4: a task whose persisted status is completed or failed keeps that status
\* in every step (dispatcher claim and revert, result handler write, startup
\* recovery, update_status of an external command) except the write-back of
\* a reset-for-retry of that task.
C4_TerminalStays ==
  [][\A i \in 1..Len(reg) :
       (reg[i].status \in TerminalStatuses /\ IndexOf(reg', reg[i].id) # 0)
         => \/ TaskOf(reg', reg[i].id).status = reg[i].status
            \/ IsRetryOf(reg[i].id)]_vars

\* C5: every task of the registry that is in_progress or reviewing has a
\* non-zero worker id and a set started_at.
C5_ActiveHasWorker ==
  \A i \in 1..Len(reg) :
    reg[i].status \in ActiveStatuses => reg[i].workerID # 0 /\ reg[i].startedAt # 0

\* C6: every completed or failed task of the registry with both started_at
\* and completed_at set has completed_at >= started_at.
C6_CompletedAfterStarted ==
  \A i \in 1..Len(reg) :
    (reg[i].status \in TerminalStatuses /\ reg[i].startedAt # 0 /\ reg[i].completedAt # 0)
      => reg[i].completedAt >= reg[i].startedAt

\* A task claimed by the dispatcher of this run has reached a terminal status
\* at a later clock reading than the one of its claim.
C6_Witness ==
  \E i \in 1..Len(reg) :
    /\ reg[i].status \in TerminalStatuses
    /\ reg[i].workerID = 0
    /\ reg[i].startedAt # 0
    /\ reg[i].completedAt > reg[i].startedAt

\* C7: the records of the registry file have pairwise distinct ids after any
\* calls through the Manager, and an AddTask of an id the registry holds
\* returns the duplicate error and leaves the file as it was loaded.
C7_IdsStayDistinct ==
  /\ CanonTasks.ok => Distinct(CanonTasks.tasks)
  /\ \A p \in Procs :
       (pc[p] = "unlock" /\ op[p].name = "add" /\ IndexOf(snap[p], op[p].id) # 0)
         => /\ res[p] = "duplicate"
            /\ CanonTasks.ok
            /\ CanonTasks.tasks = snap[p]

\* An AddTask of a present id is about to return the duplicate error, after
\* an earlier call has changed the registry.
C7_Witness ==
  \E p \in Procs :
    /\ pc[p] = "unlock"
    /\ op[p].name = "add"
    /\ res[p] = "duplicate"
    /\ ghost # start
    /\ Distinct(CanonTasks.tasks)

\* C8: on every registry, a RecoverInProgress call made right after a
\* RecoverInProgress call returns 0, resets no task, does not save, and
\* leaves the registry exactly as the first call left it.
C8_RecoverIdempotent ==
  \A k \in 2..Len(recCalls) :
    /\ recCalls[k].n = 0
    /\ ~recCalls[k].save
    /\ recCalls[k].before = recCalls[k - 1].after
    /\ recCalls[k].after = recCalls[k - 1].after
    /\ reg = recCalls[k - 1].after

\* The first call has reset an in_progress and a reviewing task that both
\* carried a worker id, and a second call has been made.
C8_Witness ==
  /\ Len(recCalls) = 2
  /\ recCalls[1].n = 2
  /\ recCalls[1].before[1].status = StatusInProgress
  /\ recCalls[1].before[2].status = StatusReviewing
  /\ recCalls[1].before[1].workerID = 1
  /\ recCalls[1].after[1].status = StatusPending

\* Run has recovered and the dispatcher has not yet started its first tick.
BeforeFirstTick == runPc \in {"recovered", "pool"} \/ (runPc = "running" /\ ~ticked)

\* C9: with RecoverInProgressOnStartup set, Run's recovery step resets every
\* in_progress or reviewing task to pending with worker id 0 and started_at
\* cleared, and from then until the dispatcher's first tick (the pool start
\* included) no task of the registry is in_progress or reviewing.
C9_RecoveredBeforeDispatch ==
  /\ [](cfgRecover /\ BeforeFirstTick
          => \A i \in 1..Len(reg) : reg[i].status \notin ActiveStatuses)
  /\ [][(cfgRecover /\ runPc = "start" /\ runPc' = "recovered")
          => /\ Len(reg') = Len(reg)
             /\ \A i \in 1..Len(reg) :
                  reg[i].status \in ActiveStatuses
                    => /\ reg'[i].status = StatusPending
                       /\ reg'[i].workerID = 0
                       /\ reg'[i].startedAt = 0]_vars

\* The pool is started after a restart whose recovery has put the task the
\* stopped run had claimed back to pending.
C9_Witness ==
  /\ cfgRecover
  /\ runPc = "pool"
  /\ restarts = 1
  /\ \E id \in orphans :
       /\ IndexOf(reg, id) # 0
       /\ TaskOf(reg, id).status = StatusPending
       /\ TaskOf(reg, id).workerID = 0
       /\ TaskOf(reg, id).startedAt = 0

\* ------------------------------------------------- orchestrator claims

\* Copies of a task in the pool: queued in the task channel or held by a
\* worker that executes it.
InFlight(id) ==
  Cardinality({i \in 1..Len(taskChan) : taskChan[i] = id})
    + Cardinality({w \in Workers : wTask[w] = id})

\* C11: at any time at most one copy of a task id is queued in the pool or
\* being executed by a worker, whatever the external commands do to the
\* registry while the task is in flight.
C11_OneCopyInFlight == \A id \in TaskIDs : InFlight(id) <= 1

\* processResult returns from a completed result that carried a plan.
FinishesPlan ==
  /\ hPc = "count"
  /\ hPc' = "idle"
  /\ hRes.status = StatusCompleted
  /\ hRes.newTasks # <<>>

\* C12 as stated: when the result handler has finished processing a
\* completed result with new tasks, every one of them is in the registry as
\* a pending task with the planned title and role.
C12_NewTasksPending ==
  [][FinishesPlan =>
       \A k \in 1..Len(hRes.newTasks) :
         LET nt == hRes.newTasks[k] IN
         /\ IndexOf(reg', nt.id) # 0
         /\ TaskOf(reg', nt.id).status = StatusPending
         /\ TaskOf(reg', nt.id).title = nt.title
         /\ TaskOf(reg', nt.id).role = nt.role]_vars

\* C12 amended: the handler's AddTask appends a new task whose id is not in
\* the registry as the pending task of the plan and reports a duplicate
\* (leaving the registry as it is) otherwise; when the handler has finished
\* with the result, every new task that was not a duplicate is in the
\* registry with the planned title and role, in whatever status the
\* dispatcher has given it in the meantime.
C12_NewTasksAdded ==
  /\ [][(hPc = "add" /\ hLeft' # hLeft) =>
          LET nt == Head(hLeft) IN
          IF IndexOf(reg, nt.id) = 0
          THEN reg' = Append(reg, nt) /\ nt.status = StatusPending /\ hDup' = hDup
          ELSE reg' = reg /\ hDup' = hDup \cup {nt.id}]_vars
  /\ [][FinishesPlan =>
          \A k \in 1..Len(hRes.newTasks) :
            LET nt == hRes.newTasks[k] IN
            nt.id \notin hDup =>
              /\ IndexOf(reg', nt.id) # 0
              /\ TaskOf(reg', nt.id).title = nt.title
              /\ TaskOf(reg', nt.id).role = nt.role]_vars

\* The handler has finished with a plan; its second task is in the registry
\* and already claimed by the dispatcher, its first one was a duplicate.
C12_Witness ==
  /\ hPc = "idle"
  /\ hRes.status = StatusCompleted
  /\ Len(hRes.newTasks) = 2
  /\ hDup = {hRes.newTasks[1].id}
  /\ TaskOf(reg, hRes.newTasks[2].id).title = "B"
  /\ TaskOf(reg, hRes.newTasks[2].id).role = "qa"
  /\ TaskOf(reg, hRes.newTasks[2].id).status = StatusInProgress

\* The order of the git steps of processResult.
GitOrder == <<"add_all", "commit", "push", "create_pr">>

\* C13: the git calls the result handler makes for a result are a prefix of
\* add_all, commit, push, create_pr (so in that order and each at most
\* once), every call before the last one made has succeeded, create_pr is
\* called only when create_pr is configured, and calls are made only for a
\* completed result with git integration enabled: none for a failed result.
C13_GitStepsInOrder ==
  /\ Len(gitLog) <= Len(GitOrder)
  /\ \A k \in 1..Len(gitLog) : gitLog[k].op = GitOrder[k]
  /\ \A k \in 1..(Len(gitLog) - 1) : gitLog[k].ok
  /\ (\E k \in 1..Len(gitLog) : gitLog[k].op = "create_pr") => cfgCreatePR
  /\ (gitLog # <<>> \/ hPc \in GitSteps) => (hRes.status = StatusCompleted /\ cfgGit)
  /\ hPc \in GitSteps => /\ hPc = GitOrder[Len(gitLog) + 1]
                         /\ \A k \in 1..Len(gitLog) : gitLog[k].ok

\* The handler has finished a completed result for which all four git steps
\* were called and succeeded.
C13_Witness ==
  /\ hPc = "idle"
  /\ hRes.status = StatusCompleted
  /\ Len(gitLog) = 4
  /\ gitLog[4].op = "create_pr"
  /\ \A k \in 1..4 : gitLog[k].ok

\* C14: a git step of the result handler, failed or not, leaves the
\* registry as it is, and once the handler has finished with a completed
\* result the task is completed whatever the git steps returned.
C14_GitFailureKeepsStatus ==
  /\ [][(hPc \in GitSteps /\ gitLog' # gitLog) => reg' = reg]_vars
  /\ []((hPc \in GitSteps \cup {"count", "idle"} /\ hRes.status = StatusCompleted)
          => TaskOf(reg, hRes.id).status = StatusCompleted)

\* The handler has finished with a completed result whose push failed, and
\* the task is completed.
C14_Witness ==
  /\ hPc = "idle"
  /\ hRes.status = StatusCompleted
  /\ Len(gitLog) = 3
  /\ ~gitLog[3].ok
  /\ TaskOf(reg, hRes.id).status = StatusCompleted

\* C15: with git integration enabled the dispatcher puts a task on the task
\* channel only after IsClean returned true and CheckoutNewBranch of the
\* task's branch succeeded; when the work directory is not clean (or IsClean
\* fails) nothing is submitted and the task, if still in the registry, is
\* pending again; when the checkout fails nothing is submitted and the task
\* is failed with a reason.
C15_GitBeforeSubmit ==
  /\ [][(cfgGit /\ Len(taskChan') > Len(taskChan))
          => /\ dGit.answer = "ok"
             /\ taskChan' = Append(taskChan, dGit.branch)
             /\ dGit.branch = dTask]_vars
  /\ [][(dPc = "git" /\ dGit'.answer = "dirty")
          => /\ taskChan' = taskChan
             /\ dPc' = "idle"
             /\ IndexOf(reg', dTask) # 0
                  => TaskOf(reg', dTask).status = StatusPending]_vars
  /\ [][(dPc = "git" /\ dGit'.answer = "branch_failed")
          => /\ taskChan' = taskChan
             /\ dPc' = "idle"
             /\ IndexOf(reg', dTask) # 0
                  => /\ TaskOf(reg', dTask).status = StatusFailed
                     /\ TaskOf(reg', dTask).failReason # ""]_vars

\* With git integration enabled one task has been submitted after its
\* branch was created and another one is failed because its checkout failed.
C15_Witness ==
  /\ cfgGit
  /\ taskChan # <<>>
  /\ TaskOf(reg, Head(taskChan)).status = StatusInProgress
  /\ \E i \in 1..Len(reg) :
       /\ reg[i].id # Head(taskChan)
       /\ reg[i].status = StatusFailed
       /\ reg[i].failReason = "git branch failed"

StatusIs(id, st) == IndexOf(reg, id) # 0 /\ TaskOf(reg, id).status = st

\* C16: with git integration disabled, an agent that always succeeds, no
\* external command and no shutdown, every pending task is eventually
\* claimed by the dispatcher (in_progress) and eventually completed.
C16_PendingEventuallyCompleted ==
  \A id \in TaskIDs :
    /\ StatusIs(id, StatusPending) ~> StatusIs(id, StatusInProgress)
    /\ StatusIs(id, StatusPending) ~> StatusIs(id, StatusCompleted)

\* Both tasks of the registry were claimed by the dispatcher and are
\* completed.
C16_Witness ==
  /\ Len(reg) = 2
  /\ \A i \in 1..2 : /\ reg[i].status = StatusCompleted
                     /\ reg[i].workerID = 0
                     /\ reg[i].startedAt # 0

\* C17: after the context is cancelled Run eventually returns, the
\* dispatcher loop exits, Pool.Stop closes the task channel and, the workers
\* gone, the result channel, and the result handler exits.
C17_ShutdownCompletes ==
  /\ ctxDone ~> (sPc = "returned")
  /\ ctxDone ~> (dPc = "exited")
  /\ ctxDone ~> (~taskOpen /\ ~resultOpen /\ \A w \in Workers : wExit[w])
  /\ ctxDone ~> hExit

\* The shutdown the claim describes has happened.
C17_CleanShutdown ==
  /\ sPc = "returned" /\ dPc = "exited" /\ hExit
  /\ ~taskOpen /\ ~resultOpen /\ \A w \in Workers : wExit[w]

\* The dispatcher's Submit has panicked on the task channel Pool.Stop closed.
C17_Panicked == dPc = "panic" /\ ~taskOpen /\ sPc # "returned"

\* --------------------------------------------------------- driver claims

TimeoutReason == "context deadline exceeded"

\* C18: when the per-task timeout expires on a driver that waits for the
\* agent, the agent is killed, no completed result comes from that run, and
\* the task's persisted status becomes failed with the timeout as its
\* fail_reason.
C18_TimeoutFailsTask ==
  /\ [](xWaited =>
          /\ child = "killed"
          /\ ~xRet.success
          /\ \A i \in 1..Len(resultChan) :
               /\ resultChan[i].status = StatusFailed
               /\ resultChan[i].err = TimeoutReason
          /\ ~StatusIs(1, StatusCompleted))
  /\ xWaited ~> (/\ StatusIs(1, StatusFailed)
                 /\ TaskOf(reg, 1).failReason = TimeoutReason)

\* The timeout expired on a waiting driver after the agent had written its
\* completion marker, and the task is failed with the timeout reason.
C18_Witness ==
  /\ xWaited
  /\ Contains(FinalOutput(outBuf), Marker)
  /\ StatusIs(1, StatusFailed)
  /\ TaskOf(reg, 1).failReason = TimeoutReason

\* execute has returned.
ExecReturned == xPc \in {"returned", "emitted"}

\* The success the agent's protocol defines: marker, stop token or exit 0.
ProtocolSuccess ==
  \/ Contains(FinalOutput(outBuf), Marker)
  \/ \E token \in cfgStop : Contains(FinalOutput(outBuf), token)
  \/ xCode = 0

\* C19: when the agent exits before the context is cancelled, execute
\* returns err = nil, and success = true exactly when the combined output
\* holds the completion marker or a configured stop token, or the exit code
\* is zero.
C19_ExitBeforeCancel ==
  (ExecReturned /\ xOrder = "exit") =>
     /\ xRet.err = "nil"
     /\ xRet.success = ProtocolSuccess

\* C19, amended: when execute receives the agent's exit from cmd.Wait on
\* its done channel, it returns err = nil, the combined output, and
\* success = true exactly when the output holds the completion marker or a
\* configured stop token, or the exit code is zero.
C19_DoneReceived ==
  doneErr = "taken" =>
     /\ ExecReturned
     /\ xRet.err = "nil"
     /\ xRet.out = FinalOutput(outBuf)
     /\ xRet.success = ProtocolSuccess

\* The agent exited with a non-zero code and the stop token in its stderr:
\* execute reported a success.
C19_Witness ==
  /\ doneErr = "taken"
  /\ xCode = 1
  /\ cfgStop = {"COMPLETED"}
  /\ Contains(outBuf.stderr, "COMPLETED")
  /\ ~Contains(FinalOutput(outBuf), Marker)
  /\ xRet.success
  /\ xRet.err = "nil"

\* C20: when the context is cancelled before the agent exits, execute kills
\* the agent and returns success = false, the cancellation error and the
\* output captured so far.
C20_CancelBeforeExit ==
  (ExecReturned /\ xOrder = "cancel") =>
     /\ ~xRet.success
     /\ xRet.err \in {"context canceled", TimeoutReason}
     /\ xRet.out = FinalOutput(outBuf)
     /\ child # "running"

\* execute returned on a cancellation that came while the agent ran and had
\* written output.
C20_CancelledWithOutput ==
  /\ ExecReturned /\ xOrder = "cancel"
  /\ FinalOutput(outBuf) # <<>>
  /\ xRet.err = "context canceled"

\* -------------------------------------------------- driver restart claims

\* C21: of the Restart calls accepted between two ResetRestartCount calls at
\* most max_restart_attempts return nil; an accepted Restart adds exactly one
\* to the counter; a Restart called with the counter at max_restart_attempts
\* or above returns an error and leaves the counter and the running flag;
\* ResetRestartCount zeroes the counter; concurrent callers included.
C21_RestartBudget ==
  /\ [](\A e \in 0..MaxResets : rOk[e] <= MaxRestartAttempts)
  /\ [](restartCount \in 0..MaxRestartAttempts)
  /\ [][\A c \in Callers :
          /\ (rPc[c] = "idle" /\ rPc'[c] = "stop")
               => restartCount' = restartCount + 1
          /\ (rPc[c] = "idle" /\ rRet'[c] # rRet[c]
                /\ restartCount >= MaxRestartAttempts)
               => /\ rRet'[c] = "max restart attempts exceeded"
                  /\ rPc'[c] = "idle"
                  /\ UNCHANGED <<restartCount, isRunning>>]_vars
  /\ [][rEpoch' # rEpoch => restartCount' = 0]_vars
  /\ [][restartCount' # restartCount =>
          \/ restartCount' = restartCount + 1
          \/ rEpoch' # rEpoch]_vars

\* The budget was used up by two restarts that returned nil, a third call
\* was refused, and after ResetRestartCount a restart returned nil again.
C21_Witness ==
  /\ rOk[0] = MaxRestartAttempts
  /\ rEpoch = 1
  /\ rOk[1] >= 1
  /\ \E c \in Callers : rRet[c] = "max restart attempts exceeded"

\* ---------------------------------------------------------- pool claims

\* C22: the task channel never holds more than 2*num_workers tasks; Submit
\* answers true exactly when it has queued the task, and false, queueing
\* nothing, when the channel holds 2*num_workers tasks; IsFull is true
\* exactly when the channel holds 2*num_workers tasks.
C22_ChannelBounded ==
  /\ Len(taskChan) <= 2 * NumWorkers
  /\ \A i \in 1..Len(callLog) :
       LET c == callLog[i] IN
       /\ c.name = "Submit" =>
            /\ c.ret \in {"true", "false"}
            /\ c.ret = "true" <=> c.after = Append(c.before, c.id)
            /\ c.ret = "false" <=> Len(c.before) = 2 * NumWorkers
            /\ c.ret = "false" => c.after = c.before
       /\ c.name = "IsFull" =>
            (c.ret = "true" <=> Len(c.before) = 2 * NumWorkers)

\* Two tasks were queued, IsFull answered false before the second and true
\* after it, and a third Submit was refused.
C22_Witness ==
  /\ Len(callLog) = 4
  /\ callLog[1].name = "Submit" /\ callLog[1].ret = "true"
  /\ callLog[2].name = "IsFull" /\ callLog[2].ret = "false"
  /\ callLog[3].name = "Submit" /\ callLog[3].ret = "true"
  /\ callLog[4].name = "Submit" /\ callLog[4].ret = "false"
  /\ Len(taskChan) = 2 * NumWorkers

\* C23: Submit on the task channel that Stop has closed returns false: it
\* does not panic and queues nothing.
C23_SubmitClosedReturnsFalse ==
  [][(dPc = "submit" /\ dPc' # "submit" /\ ~taskOpen) =>
       /\ dPc' = "idle"
       /\ runPc' = runPc
       /\ taskChan' = taskChan]_vars

\* C24: Stop closes the result channel only when every worker loop has
\* exited; no worker sends on the closed result channel; the handler leaves
\* its loop only when it has received every result the workers sent.
C24_ResultsDrained ==
  /\ [](~resultOpen => \A w \in Workers : wExit[w] /\ wTask[w] = 0)
  /\ [](hExit => ~resultOpen /\ resultChan = <<>>)
  /\ [][resultChan' # resultChan =>
          \/ /\ Len(resultChan') = Len(resultChan) + 1
             /\ resultOpen /\ resultOpen'
             /\ ~hExit
          \/ /\ resultChan' = Tail(resultChan)
             /\ ~hExit
          \/ runPc' = "crashed"]_vars

\* Stop has closed the result channel while it still holds a result, which
\* the handler has yet to receive.
C24_Witness ==
  /\ ~resultOpen
  /\ resultChan # <<>>
  /\ ~hExit
  /\ runPc = "running"

\* -------------------------------------------------------- Manager claims

C30_UpdateStatusFrame ==
  \A n \in 1..Len(callLog) :
    LET c == callLog[n]
        at == {i \in 1..Len(c.before) : c.before[i].id = c.id}
    IN c.name = "UpdateStatus" =>
         /\ Len(reg) = Len(c.before)
         /\ at = {} <=> c.err = "not_found"
         /\ at = {} => reg = c.before
         /\ \A i \in 1..Len(reg) :
              LET old == c.before[i]  new == reg[i] IN
              IF i \in at
              THEN /\ new.status = c.st
                   /\ new.updatedAt = c.t1
                   /\ new.failReason = IF c.reason = "" THEN old.failReason ELSE c.reason
                   /\ new.completedAt =
                        IF c.st \in {StatusCompleted, StatusFailed}
                        THEN c.t2 ELSE old.completedAt
                   /\ new.id = old.id
                   /\ new.title = old.title /\ new.role = old.role
                   /\ new.priority = old.priority
                   /\ new.workerID = old.workerID
                   /\ new.startedAt = old.startedAt
                   /\ new.retryCount = old.retryCount
              ELSE new = old

\* The second of two tasks, in progress at worker 1, was marked failed with
\* a reason: it keeps its worker and its start time, the first task is as
\* it was.
C30_Witness ==
  /\ Len(callLog) = 1
  /\ callLog[1].name = "UpdateStatus"
  /\ callLog[1].id = 2 /\ callLog[1].st = StatusFailed
  /\ callLog[1].reason = "CLI Update"
  /\ Len(reg) = 2
  /\ callLog[1].before[2].status = StatusInProgress
  /\ reg[2].status = StatusFailed /\ reg[2].failReason = "CLI Update"
  /\ reg[2].workerID = 1 /\ reg[2].startedAt = 1
  /\ reg[1] = callLog[1].before[1]

\* C26: every task of the registry whose status is failed has a fail_reason
\* that is not empty, whether the result handler, the dispatcher or an
\* external update_status marked it failed.
C26_FailedHasReason ==
  \A i \in 1..Len(reg) : reg[i].status = StatusFailed => reg[i].failReason # ""

\* The tasks of the registry that come strictly before task i in priority.
Above(i) == {j \in 1..Len(reg) : reg[j].priority > reg[i].priority}

\* The positions in the registry of the tasks held by the workers, and of
\* the tasks waiting in the pool's input channel.
AtWorkers == {i \in 1..Len(reg) : \E w \in Workers : wTask[w] = reg[i].id}

Queued == {i \in 1..Len(reg) : \E n \in 1..Len(taskChan) : taskChan[n] = reg[i].id}

\* C27: with one worker and a fixed set of tasks that are all pending at
\* startup, tasks are claimed, executed and completed in non-increasing
\* priority order: once a task is claimed no task of strictly greater
\* priority is pending, while a task is executed no task of strictly greater
\* priority is pending or waiting for the worker, and once a task is
\* completed every task of strictly greater priority is completed or failed.
C27_PriorityOrder ==
  \A i \in 1..Len(reg) :
    /\ reg[i].status # StatusPending =>
         \A j \in Above(i) : reg[j].status # StatusPending
    /\ i \in AtWorkers =>
         \A j \in Above(i) : reg[j].status # StatusPending /\ j \notin Queued
    /\ reg[i].status = StatusCompleted =>
         \A j \in Above(i) : reg[j].status \in {StatusCompleted, StatusFailed}

\* The three tasks are listed in increasing priority: the last of the list
\* is completed, the worker runs the second and the first is still pending.
C27_Witness ==
  /\ Len(reg) = 3
  /\ reg[1].priority = 0 /\ reg[2].priority = 1 /\ reg[3].priority = 2
  /\ reg[3].status = StatusCompleted
  /\ reg[2].status = StatusInProgress
  /\ reg[1].status = StatusPending
  /\ AtWorkers = {2}

\* C28: a task that an external mutator deleted from the registry stays
\* absent: when a ClaimTask or UpdateStatus call of the orchestrator's
\* Manager names a task that the registry file does not hold, the call's
\* save does not put the task back into the file.
C28_DeletedStaysAbsent ==
  [][\A p \in Procs :
       (/\ mgrOf[p] = "m1"
        /\ op[p].name \in {"claim", "update_status"}
        /\ pc[p] = "rename" /\ pc'[p] = "unlock"
        /\ CanonTasks.ok
        /\ IndexOf(CanonTasks.tasks, op[p].id) = 0)
       => (CanonTasks.ok' /\ IndexOf(CanonTasks.tasks', op[p].id) = 0)]_vars

\* C29: while the registry file holds malformed JSON, LoadAll and every
\* read-modify-write method (GetNextPending, AddTask, DeleteTask, UpdateTask,
\* UpdateStatus, ClaimTask, RecoverInProgress) return a parse error and none
\* of them reaches its saveAllLocked: the file keeps its malformed content
\* and no temp file is written.
C29_MalformedNeverOverwritten ==
  /\ files["canon"].exists /\ files["canon"].data \in MalformedData
  /\ ~files["tmp"].exists
  /\ \A p \in Procs :
       /\ pc[p] \in {"idle", "locked", "unlock"}
       /\ wbuf[p] = <<>>
       /\ (pc[p] \in {"idle", "unlock"} /\ op[p] # NoOp) => res[p] = "parse"

\* The orchestrator's ClaimTask and the CLI's UpdateTask have both returned
\* on a truncated registry file, each with the parse error.
C29_Witness ==
  /\ files["canon"].data = <<Tok("open", NoTask), Tok("task", Claimed(1, 1))>>
  /\ op["p1"].name = "claim" /\ pc["p1"] = "idle" /\ res["p1"] = "parse"
  /\ op["p3"].name = "update" /\ pc["p3"] = "idle" /\ res["p3"] = "parse"

\* C31: RecoverInProgress resets exactly the tasks whose status is
\* in_progress or reviewing: each of them becomes pending with worker_id,
\* retry_count, fail_reason, started_at and completed_at cleared; it returns
\* the number of these tasks; every pending, completed and failed task, and
\* the order of the tasks, stay as they were.
C31_RecoverFrame ==
  \A n \in 1..Len(recCalls) :
    LET c == recCalls[n]
        stuck == {i \in 1..Len(c.before) :
                    c.before[i].status \in {StatusInProgress, StatusReviewing}}
    IN /\ c.n = Cardinality(stuck)
       /\ Len(c.after) = Len(c.before)
       /\ \A i \in 1..Len(c.before) :
            LET old == c.before[i]  new == c.after[i] IN
            IF i \in stuck
            THEN /\ new.status = StatusPending
                 /\ new.workerID = 0 /\ new.retryCount = 0
                 /\ new.failReason = ""
                 /\ new.startedAt = 0 /\ new.completedAt = 0
                 /\ new.id = old.id /\ new.priority = old.priority
                 /\ new.title = old.title /\ new.role = old.role
            ELSE new = old
       /\ n = Len(recCalls) => reg = c.after

\* A call found a reviewing task that had been tried before and a failed
\* task: it returned 1, reset the first and left the failed one as it was.
C31_Witness ==
  /\ Len(recCalls) >= 1
  /\ Len(recCalls[1].before) = 2
  /\ recCalls[1].before[1].status = StatusReviewing
  /\ recCalls[1].before[1].retryCount = 1
  /\ recCalls[1].before[1].failReason # ""
  /\ recCalls[1].before[2].status = StatusFailed
  /\ recCalls[1].n = 1
  /\ recCalls[1].after[1].status = StatusPending
  /\ recCalls[1].after[2] = recCalls[1].before[2]

\* The id of the task that the call in progress at p names.
Target(p) == IF op[p].name = "update" THEN got[p].id ELSE op[p].id

\* C32: DeleteTask, GetByID, UpdateTask, UpdateStatus and ClaimTask called
\* with an id that the registry does not hold return a not-found error
\* straight after loading the list: they hand nothing to saveAllLocked and
\* the registry file and its temp file are as they were.
C32_NotFoundWritesNothing ==
  [][\A p \in Procs :
       (/\ op[p].name \in {"delete", "get", "update", "update_status", "claim"}
        /\ pc[p] = "locked" /\ pc'[p] # "locked"
        /\ IndexOf(CanonTasks.tasks, Target(p)) = 0)
       => /\ pc'[p] = "unlock"
          /\ res'[p] = "not_found"
          /\ wbuf'[p] = <<>>
          /\ files' = files]_vars

\* On a registry that holds only task 2, the TUI's DeleteTask of task 1 and
\* the CLI's UpdateTask of a task 1 it held have both returned not-found,
\* and the file still holds exactly task 2.
C32_Witness ==
  /\ op["p2"].name = "delete" /\ op["p2"].id = 1
  /\ pc["p2"] = "idle" /\ res["p2"] = "not_found"
  /\ op["p3"].name = "update"
  /\ pc["p3"] = "idle" /\ res["p3"] = "not_found"
  /\ files["canon"] = File(Marshal(<<NewTask(2, 0, 1)>>))

\* C33: after any sequence of successful AddTask and UpdateTask calls on
\* one Manager, LoadAll returns exactly the tasks written: each added task
\* once, in the order of the adds, with the field values of its latest add
\* or update (an update's updated_at being the stamp UpdateTask gave it).
C33_LoadReturnsWritten ==
  /\ Loaded.ok
  /\ Loaded.tasks = ghost
  /\ \A i, j \in 1..Len(ghost) : ghost[i].id = ghost[j].id => i = j

\* Two tasks were added and the first was then replaced by a failed task
\* with every field set: LoadAll returns both, the first as updated.
C33_Witness ==
  /\ Len(callLog) = 3
  /\ callLog[1].name = "AddTask" /\ callLog[2].name = "AddTask"
  /\ callLog[3].name = "UpdateTask" /\ callLog[3].id = callLog[1].id
  /\ Len(Loaded.tasks) = 2
  /\ Loaded.tasks[1].status = StatusFailed
  /\ Loaded.tasks[1].failReason = "agent failed"
  /\ Loaded.tasks[2].role = "qa"
  /\ Loaded.tasks[2].workerID = 0

\* A step of the dispatcher's tick: the orchestrator process goes on running
\* and the dispatcher moves on.
TickStep == runPc = "running" /\ runPc' = "running" /\ dPc' # dPc

\* The status the registry holds for a task, "" when it holds no such task.
StatusOf(tasks, id) == TaskOf(tasks, id).status

\* C34: on each dispatcher tick a task is submitted to the pool only after
\* its claim succeeded in that tick. A tick that finds the pool full claims
\* nothing; a claim that fails submits nothing and writes nothing; only the
\* submit step puts a task into the pool, and it puts the claimed one; and a
\* tick that ends after a successful claim without the pool having accepted
\* the task has written the task back (pending, or failed when the branch
\* could not be created): its own writes never leave it in_progress. (The
\* dispatcher is the pool's only client, so a pool that was not full at the
\* start of the tick does not refuse the submission.)
C34_SubmitAfterClaim ==
  [][/\ (TickStep /\ dPc = "idle") =>
          /\ dPc' = "claim"
          /\ Len(taskChan) < ChanCap
          /\ StatusOf(reg, dTask') = StatusPending
          /\ reg' = reg /\ taskChan' = taskChan
     /\ (TickStep /\ dPc = "claim") =>
          IF StatusOf(reg, dTask) = StatusPending
          THEN /\ dPc' = (IF cfgGit THEN "git" ELSE "submit")
               /\ StatusOf(reg', dTask) = StatusInProgress
               /\ taskChan' = taskChan
          ELSE dPc' = "idle" /\ reg' = reg /\ taskChan' = taskChan
     /\ (TickStep /\ dPc = "git") =>
          /\ taskChan' = taskChan
          /\ dPc' = "idle" => StatusOf(reg', dTask) \in {"", StatusPending, StatusFailed}
     /\ (TickStep /\ dPc = "submit") =>
          /\ dPc' = "idle"
          /\ \/ taskChan' = Append(taskChan, dTask) /\ reg' = reg
             \/ taskChan' = taskChan /\ StatusOf(reg', dTask) \in {"", StatusPending}
     /\ (runPc = "running" /\ runPc' = "running" /\ Len(taskChan') > Len(taskChan)) =>
          dPc = "submit"
    ]_vars

\* The tick has claimed task 2, created its branch and handed it to the
\* pool: the task is in_progress and queued, the dispatcher is idle again.
C34_Witness ==
  /\ runPc = "running" /\ dPc = "idle" /\ cfgGit
  /\ dGit = NoGit
  /\ taskChan = <<2>>
  /\ StatusOf(reg, 2) = StatusInProgress
  /\ StatusOf(reg, 1) = StatusPending

\* The tasks that were handed to the pool and whose result the handler has
\* not processed yet: queued, at a worker, or in the result channel.
Dispatched ==
  {taskChan[n] : n \in 1..Len(taskChan)}
    \cup {wTask[w] : w \in {v \in Workers : wTask[v] # 0}}
    \cup {resultChan[n].id : n \in 1..Len(resultChan)}

\* C35: with git integration enabled at most one task is in flight at any
\* time: the dispatcher does not submit a second task while an earlier one
\* has not reached a terminal status.
C35_OneInFlightWithGit == cfgGit => Cardinality(Dispatched) <= 1

\* The entry of the cooldown sequence for the k-th attempt, the last entry
\* when there are fewer than k.
CooldownFor(seconds, k) == seconds[IF k > Len(seconds) THEN Len(seconds) ELSE k]

\* C36: the cooldown a restart waits is selected by the attempt number: the
\* k-th restart since the last reset waits the k-th entry of
\* restart_cooldown_seconds, the last entry when k exceeds the length.
C36_CooldownByAttempt ==
  \A n \in 1..Len(callLog) :
    callLog[n].name = "Restart" =>
      callLog[n].cooldown = CooldownFor(RestartCooldownSeconds, callLog[n].attempt)

\* C37: EnsureFile writes the empty list only when the registry file is
\* absent: no step of an EnsureFile call changes the contents of a registry
\* file that exists, whatever another process does to the file during the
\* call.
C37_EnsureKeepsExistingFile ==
  [][\A p \in Procs :
       (/\ op[p].name = "ensure"
        /\ pc[p] \in {"locked", "create", "fill"}
        /\ pc'[p] # pc[p] \/ off'[p] # off[p]
        /\ files["canon"].exists
        /\ fd[p] # "canon")
       => files'["canon"] = files["canon"]]_vars

\* C38: in no interleaving of the dispatcher loop with the shutdown does the
\* dispatcher send on the pool's task channel after Stop has closed it: a
\* tick in progress when the context is cancelled never gets to Submit's
\* send with the channel closed.
C38_NoSendAfterClose == ~(dPc = "panic" /\ ~taskOpen /\ ctxDone)

\* The tasks the dispatcher has claimed and whose result the handler has not
\* processed: the one of a tick past its claim, and those handed to the pool.
Unfinished ==
  Dispatched \cup (IF dPc \in {"submit", "panic"} THEN {dTask} ELSE {})

PlanTasksIn(tasks, result) ==
  {k \in 1..Len(result.newTasks) :
     \E i \in 1..Len(tasks) :
       /\ tasks[i].id = result.newTasks[k].id
       /\ tasks[i].title = result.newTasks[k].title}

\* The results the handler has not written the status of: those still in
\* the result channel and the one it has just received.
Unwritten ==
  {resultChan[i] : i \in 1..Len(resultChan)}
    \cup (IF hPc = "update" THEN {hRes} ELSE {})

\* C40: processResult writes the status, then adds the plan's tasks, then
\* runs the git steps.  The step that leaves the status write stores the
\* result's status, the adds are entered from the status write only and the
\* git steps from the status write or the adds, never the other way round;
\* so no task of a plan is in the registry while the status of its result is
\* unwritten, a plan task in the registry means the parent carries the
\* result's status, and no git step has run when the status is written.
C40_StatusThenPlanThenGit ==
  /\ [][hPc = "update" /\ hPc' # "update" =>
          StatusOf(reg', hRes.id) = hRes.status]_vars
  /\ [][hPc' = "add" => hPc \in {"update", "add"}]_vars
  /\ [][hPc' \in GitSteps => hPc \in {"update", "add"} \cup GitSteps]_vars
  /\ [][hPc' = "update" => hPc \in {"idle", "update"}]_vars
  /\ [][gitLog' # gitLog /\ gitLog' # <<>> => hPc \in GitSteps]_vars
  /\ [](\A r \in Unwritten : PlanTasksIn(reg, r) = {})
  /\ [](hPc = "update" => gitLog = <<>>)
  /\ [](hPc \notin {"idle", "update"} /\ PlanTasksIn(reg, hRes) # {} =>
          StatusOf(reg, hRes.id) = hRes.status)

\* The handler has written a result's status, added both tasks of its plan
\* and committed.
C40_Witness ==
  /\ hPc = "push"
  /\ PlanTasksIn(reg, hRes) = {1, 2}
  /\ StatusOf(reg, hRes.id) = StatusCompleted
  /\ \E i \in 1..Len(gitLog) : gitLog[i].op = "commit" /\ gitLog[i].ok
=============================================================================
